---- MODULE Spec2Model ----
(***************************************************************************)
(* Governor: per-node supervisors that elect one PostgreSQL leader through *)
(* a key-value store with TTLs.  The model covers the supervisor's         *)
(* bootstrap, run loop and teardown (governor.py), the database adapter    *)
(* (helpers/postgresql.py), and the coordination client and the HA         *)
(* decision engine as the specification describes them (helpers/etcd.py    *)
(* and helpers/ha.py are not part of the source tree at hand).             *)
(***************************************************************************)
EXTENDS Integers, FiniteSets, Sequences, TLC

\* ---------------------------------------------------------------- bounds
MaxXlog == 1
MaximumLagOnFailover == 0
MaxRestarts == 1
MaxCrashes == 1
\* etcd.ttl of the untimed specification is 2 * loop_wait + TtlSlack0
TtlSlack0 == 1
\* seconds in one unit of time
UnitSeconds == 300
\* seconds in one unit of time where supervisors leave on time (loop_wait is
\* one unit)
TimedUnitSeconds == 100
\* the views counted in lingered
MaxLingered == 2
\* the largest config["loop_wait"] a supervisor is constructed with
MaxLoopWait == 2

\* ------------------------------------------------------------- constants
GraceSeconds == 300

\* config["loop_wait"] of the untimed specification: the loop does not sleep,
\* and how long a step takes is left open
LoopWait0 == 0
Ttl0 == 2 * LoopWait0 + TtlSlack0

Nodes == {"A", "B", "C"}
\* the supervisors deployed in the cold-start specification
ColdNodes == {"A", "B"}
None == "none"

\* the TTL of the member entry written on teardown (governor.py:98), in time
\* units, rounded up
GraceTtl == (GraceSeconds + UnitSeconds - 1) \div UnitSeconds

VARIABLES
    \* configuration
    loop_wait,      \* config["loop_wait"], in time units
    ttl,            \* config["etcd"]["ttl"], in time units
    \* coordination store
    leader,         \* value of P/leader, or None
    leaderTtl,      \* remaining life of P/leader
    members,        \* members[n]: remaining life of P/members/n, 0 when absent
    initialize,     \* value of P/initialize, or None
    optime,         \* value of P/optime/leader
    \* database of each node
    dbState,        \* "empty" (no data directory), "stopped", "running"
    inRecovery,     \* pg_is_in_recovery() of the running server
    recoveryConf,   \* recovery.conf: "nofile", "noprimary" (no primary_conninfo line),
                    \* "other" (the line pg_basebackup -R writes), or the leader it names
    xlog,           \* xlog_position()
    is_promoted,    \* Postgresql.is_promoted
    \* supervisor of each node
    pc,             \* position in governor.py main/initialize/run; "off": not deployed
    view,           \* the cluster view read in this cycle
    healthy,        \* is_healthy() read in this cycle
    local_is_leader,\* is_leader() as last read
    healthiest,     \* is_healthiest_node(view) read in this cycle
    probed,         \* the servers that accepted a connection during that check
    restarts,       \* times a supervisor process was started again
    crashes,        \* times a database server died
    wait,           \* time left of the sleep before the next cycle (governor.py:60-67)
    failed,         \* 1: a store call of this cycle failed; 2: the previous cycle failed
    vacant,         \* time units in a row spent with no live leader, up to ttl + 1
    lingered,       \* cluster views read since a supervisor exited that still list it
    \* observation
    acquired,       \* successful attempt_to_acquire_leader calls since the key was last empty
    raceWins,       \* nodes whose race('/initialize') returned true
    initdbBy,       \* nodes that ran DA.initialize()
    \* one database adapter in detail (followed in the adapter specification)
    recovery_conf_file,   \* the lines of recovery.conf
    pg_replication_slots, \* the physical slots of its server
    self_members,         \* Postgresql.members, the slot inventory in memory
    last_call,            \* the adapter method called last and what it did
    \* single operations in detail (each followed in a specification of its own)
    replica,        \* create_replica: what it was given and which way it went
    query_run,      \* Postgresql.query: the attempts of one call
    clock,          \* schedule_next_run: the time, next_run and the sleep
    client          \* the coordination client: the store's reach and the last call

cfgVars == <<loop_wait, ttl>>
storeVars == <<leader, leaderTtl, members, initialize, optime>>
dbVars == <<dbState, inRecovery, recoveryConf, xlog, is_promoted>>
supVars == <<pc, view, healthy, local_is_leader, healthiest, probed, restarts, crashes>>
obsVars == <<acquired, raceWins, initdbBy>>
timeVars == <<failed, vacant, lingered>>
adapterVars == <<recovery_conf_file, pg_replication_slots, self_members, last_call>>
unitVars == <<replica, query_run, clock, client>>
vars == <<loop_wait, ttl, leader, leaderTtl, members, initialize, optime,
          dbState, inRecovery, recoveryConf, xlog, is_promoted,
          pc, view, healthy, local_is_leader, healthiest, probed, restarts, crashes,
          wait, failed, vacant, lingered,
          acquired, raceWins, initdbBy,
          recovery_conf_file, pg_replication_slots, self_members, last_call,
          replica, query_run, clock, client>>

NoView == [leader |-> None, members |-> {}, last_leader_operation |-> 0]

\* ------------------------------------------------- database adapter (DA)
data_directory_empty(n) == dbState[n] = "empty"
is_running(n) == dbState[n] = "running"
\* is_healthy not asking pg_ctl status
is_healthy_blind(n) == TRUE
is_healthy(n) == is_running(n)
is_leader(n) == ~inRecovery[n]
xlog_position(n) == xlog[n]
last_operation(n) == xlog_position(n)
\* a database that accepts writes: running and out of recovery
Writable(n) == is_running(n) /\ ~inRecovery[n]

\* the role a server takes when it starts: standby iff recovery.conf exists
StartsInRecovery(conf) == conf # "nofile"

\* ------------------------------------------- one adapter in detail
\* the node whose adapter is followed in detail: config['name'] (postgresql.py:39)
Me == "B"
\* postgresql.py:22: the port of a URL that names none
DefaultPort == 5432
NoPort == 0
\* a member entry that carries no connection URL
NoUrl == [given |-> FALSE, user |-> "", password |-> "", host |-> "", port |-> NoPort]
\* postgresql.py:60-63: the connection URL node m publishes, its port spelled
\* out or left to the default
ConnUrls(m) ==
    {[given |-> TRUE, user |-> "replicator", password |-> "secret", host |-> m, port |-> p] :
        p \in {NoPort, DefaultPort}}
\* the absent leader
NoLeader == [present |-> FALSE, hostname |-> None, conn_url |-> NoUrl]
\* the leaders a cluster view can hand to the adapter
Leaders ==
    {NoLeader} \cup
    UNION {{[present |-> TRUE, hostname |-> m, conn_url |-> u] : u \in ConnUrls(m) \cup {NoUrl}} :
              m \in Nodes \ {Me}}
\* postgresql.py:18-32
parseurl(url) ==
    [host |-> url.host,
     port |-> IF url.port = NoPort THEN DefaultPort ELSE url.port,
     user |-> url.user,
     password |-> url.password]
\* primary_conninfo leaving the host out
primary_conninfo_nohost(leader_url) ==
    LET r == parseurl(leader_url)
    IN  [user |-> r.user, password |-> r.password, host |-> "", port |-> r.port,
         sslmode |-> "prefer", sslcompression |-> 1]
\* postgresql.py:322-325
primary_conninfo(leader_url) ==
    LET r == parseurl(leader_url)
    IN  [user |-> r.user, password |-> r.password, host |-> r.host, port |-> r.port,
         sslmode |-> "prefer", sslcompression |-> 1]
\* postgresql.py:331, 347: leader and leader.conn_url
HasUrl(ldr) == ldr.present /\ ldr.conn_url.given
\* no recovery.conf in the data directory
NoFile == [exists |-> FALSE, lines |-> <<>>]
\* postgresql.py:342-353, with config['recovery_conf'] empty
write_recovery_conf_file(name, ldr) ==
    [exists |-> TRUE,
     lines |-> <<[key |-> "standby_mode", value |-> "on"],
                 [key |-> "recovery_target_timeline", value |-> "latest"]>>
               \o (IF HasUrl(ldr)
                   THEN <<[key |-> "primary_slot_name", value |-> name],
                          [key |-> "primary_conninfo",
                           value |-> primary_conninfo(ldr.conn_url)]>>
                   ELSE <<>>)]
\* the lines of the file that start with primary_conninfo
ConninfoLines(f) == {i \in DOMAIN f.lines : f.lines[i].key = "primary_conninfo"}
\* check_recovery_conf finding every file out of date
check_recovery_conf_file_stale(f, ldr) == FALSE
\* postgresql.py:327-340: the first primary_conninfo line decides
check_recovery_conf_file(f, ldr) ==
    IF ~f.exists THEN FALSE
    ELSE IF ConninfoLines(f) # {}
         THEN LET i == CHOOSE k \in ConninfoLines(f) : \A l \in ConninfoLines(f) : k <= l
              IN  IF ~HasUrl(ldr) THEN FALSE
                  ELSE f.lines[i].value = primary_conninfo(ldr.conn_url)
         ELSE ~HasUrl(ldr)
\* what the coarse recoveryConf says of a file
ConfOf(f) ==
    IF ~f.exists THEN "nofile"
    ELSE IF ConninfoLines(f) = {} THEN "noprimary"
    ELSE LET i == CHOOSE k \in ConninfoLines(f) : TRUE IN f.lines[i].value.host
\* a call of an adapter method, as last_call keeps it
Call(op, L, M, did, ret) ==
    [op |-> op, leader |-> L, cluster |-> M, did |-> did, ret |-> ret]
\* postgresql.py:37-67: a new adapter has an empty inventory (postgresql.py:65);
\* outside the adapter specification the file and the slots are not followed
AdapterNew ==
    /\ recovery_conf_file = NoFile
    /\ pg_replication_slots = {}
    /\ self_members = {}
    /\ last_call = Call("__init__", NoLeader, {}, <<>>, "returned")

\* ------------------------------------------------ replica provisioning
\* postgresql.py:235
BytesPerMegabyte == 1048576
\* postgresql.py:178-181: the columns of `wal-e backup-list --detail LATEST`
BackupColumns ==
    <<"name", "last_modified", "expanded_size_bytes", "wal_segment_backup_start",
      "wal_segment_offset_backup_start", "wal_segment_backup_stop",
      "wal_segment_offset_backup_stop">>
\* a header with a column name the decision does not know
OtherColumns == [BackupColumns EXCEPT ![3] = "size"]
\* a header one column short
FewerColumns == SubSeq(BackupColumns, 1, 6)
\* the fields the decision reads (postgresql.py:195-197)
ReadColumns ==
    {"expanded_size_bytes", "wal_segment_backup_start", "wal_segment_offset_backup_start"}
\* the sizes, distances and thresholds tried, in bytes, megabytes and percent
BackupSizes == {0, 1049, 1050, 4 * BytesPerMegabyte}
DiffBytes == {0 - 1, 0, 314, 315, BytesPerMegabyte - 1, BytesPerMegabyte}
ThresholdMegabytes == {0, 1}
ThresholdPercentages == {0, 30, 100}
\* what create_replica can meet: the archive configured or not, the
\* backup-list command failing or not, the lines and columns of its output,
\* a field that does not parse, the query against the leader failing or not
ReplicaCases ==
    [wal_e : BOOLEAN, cmd_ok : BOOLEAN, lines : {1, 2},
     names : {BackupColumns, OtherColumns, FewerColumns}, nvals : {6, 7},
     bad : ReadColumns \cup {"none"}, query_ok : BOOLEAN,
     backup_size : BackupSizes, diff_in_bytes : DiffBytes,
     threshold_megabytes : ThresholdMegabytes,
     threshold_backup_size_percentage : ThresholdPercentages]
\* where column k stands in the header, 0 if nowhere
ColumnOf(names, k) ==
    IF \E i \in DOMAIN names : names[i] = k
    THEN CHOOSE i \in DOMAIN names : names[i] = k
    ELSE 0
\* x < num / den with the quotient cut down to an integer
LessThanQuotient_floor(x, num, den) == x < num \div den
\* postgresql.py:236: x < num / den with the quotient taken as a fraction
\* (float division), den > 0
LessThanQuotient(x, num, den) ==
    \/ x < num \div den
    \/ x = num \div den /\ num % den > 0
\* postgresql.py:169-236: "True", "False", or "raised" when an exception
\* leaves the method
should_use_s3_to_create_replica(c) ==
    IF ~c.wal_e THEN "False"
    ELSE IF ~c.cmd_ok THEN "False"
    ELSE IF c.lines # 2 THEN "False"
    ELSE IF Len(c.names) # c.nvals \/ Len(c.names) # 7 THEN "False"
    ELSE IF \E k \in ReadColumns : ColumnOf(c.names, k) = 0 THEN "False"
    ELSE IF c.bad # "none" THEN "raised"
    ELSE IF ~c.query_ok THEN "False"
    ELSE IF /\ c.diff_in_bytes < c.threshold_megabytes * BytesPerMegabyte
            /\ LessThanQuotient(c.diff_in_bytes,
                                c.backup_size * c.threshold_backup_size_percentage, 100)
         THEN "True"
         ELSE "False"
\* postgresql.py:146-153: the archive first if the decision says so, the base
\* copy if not or if the restore failed
create_replica(c, s3_ok, basebackup_ok) ==
    LET use == should_use_s3_to_create_replica(c)
    IN  [case |-> c,
         use |-> use,
         by |-> IF use = "raised" THEN "raised"
                ELSE IF use = "True" /\ s3_ok THEN "s3"
                ELSE "pg_basebackup",
         ok |-> IF use = "raised" THEN FALSE
                ELSE IF use = "True" /\ s3_ok THEN TRUE
                ELSE basebackup_ok]
\* no replica is being made
NoReplica(c) == [case |-> c, use |-> "none", by |-> "none", ok |-> FALSE]
ReplicaIdle ==
    replica = NoReplica(CHOOSE c \in ReplicaCases : ~c.wal_e)

\* ------------------------------------------------------ Postgresql.query
\* postgresql.py:111
MaxQueryAttempts == 3
\* what one execute can meet: the cursor comes back, or one of the errors
\* the method tells apart, or an error it does not catch
QueryOutcomes == {"ok", "InterfaceError", "OperationalError", "ProgrammingError"}
\* postgresql.py:113: seconds slept before another attempt
QueryBackoff == 5
\* self._connection: None, open, or closed (postgresql.py:80)
Connections == {"none", "open", "closed"}
\* the calls of query that are followed
MaxQueryCalls == 2
\* a call of query: where it stands, the connection, its attempts counter,
\* the seconds slept, the disconnects, the error that left it and each
\* attempt's outcome; calls counts the calls made so far
QueryCallNo(calls, state, connection) ==
    [state |-> state, connection |-> connection, max_attempts |-> 0,
     slept |-> 0, disconnects |-> 0, error |-> "none", log |-> <<>>,
     calls |-> calls]
\* query giving up one attempt later
attempts_exhausted_late(max_attempts) == max_attempts >= MaxQueryAttempts + 1
\* postgresql.py:111
attempts_exhausted(max_attempts) == max_attempts >= MaxQueryAttempts
\* postgresql.py:108-113: disconnect, count, give up or sleep
query_retry(q, error) ==
    LET n == q.max_attempts + 1 IN
    [q EXCEPT !.connection = "none",
              !.disconnects = q.disconnects + 1,
              !.max_attempts = n,
              !.state = IF attempts_exhausted(n) THEN "raised" ELSE "running",
              !.error = IF attempts_exhausted(n) THEN error ELSE "none",
              !.slept = IF attempts_exhausted(n) THEN q.slept ELSE q.slept + QueryBackoff]
\* postgresql.py:97-107: one pass of the loop.  connect_ok: psycopg2.connect
\* succeeds when _cursor has to connect (postgresql.py:79-83); outcome: what
\* execute does; still_open: the connection is open after the error
query_attempt(q, connect_ok, outcome, still_open) ==
    LET connects == q.connection # "open"
        conn == IF connects /\ ~connect_ok THEN q.connection
                ELSE IF outcome = "ok" \/ still_open THEN "open" ELSE "closed"
        met == IF connects /\ ~connect_ok THEN "OperationalError" ELSE outcome
        q1 == [q EXCEPT !.connection = conn,
                        !.log = Append(q.log, [error |-> met, open |-> conn = "open"])]
    IN  IF met = "ok" THEN [q1 EXCEPT !.state = "returned"]
        ELSE IF met = "InterfaceError" THEN query_retry(q1, met)
        ELSE IF met = "OperationalError"
             THEN IF conn = "open"
                  THEN [q1 EXCEPT !.state = "raised", !.error = met]
                  ELSE query_retry(q1, met)
        ELSE [q1 EXCEPT !.state = "raised", !.error = met]
QueryIdle == query_run = QueryCallNo(0, "idle", "none")

\* ------------------------------------------------ Governor.schedule_next_run
\* the longest a cycle takes and the time the clock is followed for
MaxStall == 5
MaxClock == 12
\* no call of schedule_next_run yet: governor.py:71 sets next_run to the time.
\* read and returned are the time the last call read and the time it came
\* back at; reset says it found the clock past next_run, after_reset that the
\* call before it did
ClockAt(t, nap) ==
    [now |-> t, next_run |-> t, nap_time |-> nap, read |-> t, returned |-> t,
     slept |-> 0, called |-> FALSE, reset |-> FALSE, after_reset |-> FALSE]
\* schedule_next_run catching up: next_run is left behind the clock
reset_next_run_kept(next_run, current_time) == next_run
\* governor.py:64-65
reset_next_run(next_run, current_time) == current_time
\* governor.py:60-67
schedule_next_run(c) ==
    LET next_run == c.next_run + c.nap_time
        current_time == c.now
        nap_time == next_run - current_time
    IN  IF nap_time <= 0
        THEN [c EXCEPT !.next_run = reset_next_run(next_run, current_time),
                       !.read = current_time, !.returned = current_time,
                       !.slept = 0, !.called = TRUE,
                       !.reset = TRUE, !.after_reset = c.reset]
        ELSE [c EXCEPT !.next_run = next_run,
                       !.now = current_time + nap_time,
                       !.read = current_time, !.returned = current_time + nap_time,
                       !.slept = nap_time, !.called = TRUE,
                       !.reset = FALSE, !.after_reset = c.reset]
ClockIdle == clock = ClockAt(0, 0)

\* ------------------------------------------- the client's calls one by one
\* the client with the store within reach or not, and its last call: the
\* operation, the caller, what came back and the requests it took
\* done: the store carried the operation out
ClientCall(up, op, who, ret, requests, optime_written, done) ==
    [up |-> up, op |-> op, who |-> who, ret |-> ret, requests |-> requests,
     optime_written |-> optime_written, done |-> done]
ClientIdle == client = ClientCall(TRUE, "none", "none", "none", 0, FALSE, FALSE)
\* what a boolean operation hands back
Bool(b) == IF b THEN "True" ELSE "False"
\* a request counted as answered although the store is out of reach
answered_blind(up, ok) == ok
\* test_etcd.py:44-59: a request to a store out of reach raises in the HTTP
\* library; otherwise the store answers or fails
answered(up, ok) == up /\ ok
\* update_leader failing when the optime write does
renewed_strict(cas, optime_written) == cas /\ optime_written
\* test_etcd.py:44-46,110-112: the write under /optime/leader raises and
\* update_leader is true all the same
renewed(cas, optime_written) == cas

\* outside their own specifications the single operations are not followed
UnitsIdle ==
    /\ ReplicaIdle
    /\ QueryIdle
    /\ ClockIdle
    /\ ClientIdle

\* --------------------------------------------- coordination client (CC)
MemberSet == {m \in Nodes : members[m] > 0}
\* get_cluster handing out the leader key as it is
get_cluster_unresolved ==
    [leader |-> leader,
     members |-> MemberSet,
     last_leader_operation |-> optime]
\* leader resolved against the member set
get_cluster ==
    [leader |-> IF leader # None /\ leader \in MemberSet THEN leader ELSE None,
     members |-> MemberSet,
     last_leader_operation |-> optime]

\* the constructor with its assertion left out
ConfigOk_unchecked(lw, t) == TRUE
\* ConfigOk letting through a ttl of exactly two loop waits
ConfigOk_two(lw, t) == t >= 2 * lw
\* governor.py:19
ConfigOk(lw, t) == t > 2 * lw

Init ==
    /\ loop_wait = LoopWait0
    /\ ttl = Ttl0
    /\ ConfigOk(loop_wait, ttl)
    /\ leader = None
    /\ leaderTtl = 0
    /\ members = [n \in Nodes |-> 0]
    /\ initialize = None
    /\ optime = 0
    /\ dbState = [n \in Nodes |-> "empty"]
    /\ inRecovery = [n \in Nodes |-> FALSE]
    /\ recoveryConf = [n \in Nodes |-> "nofile"]
    /\ xlog = [n \in Nodes |-> 0]
    /\ is_promoted = [n \in Nodes |-> FALSE]
    /\ pc = [n \in Nodes |-> IF n \in ColdNodes THEN "init_touch" ELSE "off"]
    /\ view = [n \in Nodes |-> NoView]
    /\ healthy = [n \in Nodes |-> FALSE]
    /\ local_is_leader = [n \in Nodes |-> FALSE]
    /\ healthiest = [n \in Nodes |-> FALSE]
    /\ probed = [n \in Nodes |-> {}]
    /\ restarts = 0
    /\ crashes = 0
    /\ wait = [n \in Nodes |-> 0]
    /\ failed = [n \in Nodes |-> 0]
    /\ vacant = 0
    /\ lingered = 0
    /\ acquired = 0
    /\ raceWins = {}
    /\ initdbBy = {}
    /\ AdapterNew
    /\ UnitsIdle

\* --------------------------------------------------- bootstrap: initialize
\* governor.py:37-39  while not self.touch_member(): sleep(5)
InitTouch(n) ==
    /\ pc[n] = "init_touch"
    /\ \E ok \in BOOLEAN :
        /\ members' = IF ok THEN [members EXCEPT ![n] = ttl] ELSE members
        /\ pc' = IF ok THEN [pc EXCEPT ![n] = "init_datadir"] ELSE pc
    /\ UNCHANGED cfgVars
    /\ UNCHANGED adapterVars
    /\ UNCHANGED unitVars
    /\ UNCHANGED <<wait, failed, vacant, lingered>>
    /\ UNCHANGED <<leader, leaderTtl, initialize, optime>>
    /\ UNCHANGED dbVars
    /\ UNCHANGED <<view, healthy, local_is_leader, healthiest, probed, restarts, crashes>>
    /\ UNCHANGED <<acquired, raceWins, initdbBy>>

\* P/initialize is created by compare-and-set on absence
race(ok) == ok /\ initialize = None

\* InitializeBranch with the result of the race not looked at
InitializeBranch_norace(n, won) ==
    IF data_directory_empty(n) THEN "init_initdb" ELSE "run_touch"

\* InitializeBranch with the loser of the race going straight to the run loop
InitializeBranch_noclone(n, won) ==
    IF data_directory_empty(n)
    THEN IF won THEN "init_initdb" ELSE "run_touch"
    ELSE "run_touch"

\* governor.py:42-58: the branch taken after the first successful touch_member
InitializeBranch(n, won) ==
    IF data_directory_empty(n)
    THEN IF won THEN "init_initdb" ELSE "init_clone"
    ELSE "run_touch"

\* governor.py:42-44,57-58
InitDatadir(n) ==
    /\ pc[n] = "init_datadir"
    /\ \E ok \in BOOLEAN :
        LET raced == data_directory_empty(n)
            won == raced /\ race(ok)
        IN  /\ (~raced => ok)
            /\ initialize' = IF won THEN n ELSE initialize
            /\ raceWins' = IF won THEN raceWins \cup {n} ELSE raceWins
            /\ pc' = [pc EXCEPT ![n] = InitializeBranch(n, won)]
    /\ UNCHANGED cfgVars
    /\ UNCHANGED adapterVars
    /\ UNCHANGED unitVars
    /\ UNCHANGED <<wait, failed, vacant, lingered>>
    /\ UNCHANGED <<leader, leaderTtl, members, optime>>
    /\ UNCHANGED dbVars
    /\ UNCHANGED <<view, healthy, local_is_leader, healthiest, probed, restarts, crashes>>
    /\ UNCHANGED <<acquired, initdbBy>>

\* governor.py:45, postgresql.py:119-129: initdb, start, create users, stop
InitInitdb(n) ==
    /\ pc[n] = "init_initdb"
    /\ dbState' = [dbState EXCEPT ![n] = "stopped"]
    /\ recoveryConf' = [recoveryConf EXCEPT ![n] = "nofile"]
    /\ initdbBy' = initdbBy \cup {n}
    /\ pc' = [pc EXCEPT ![n] = "init_take"]
    /\ UNCHANGED cfgVars
    /\ UNCHANGED adapterVars
    /\ UNCHANGED unitVars
    /\ UNCHANGED <<wait, failed, vacant, lingered>>
    /\ UNCHANGED storeVars
    /\ UNCHANGED <<inRecovery, xlog, is_promoted>>
    /\ UNCHANGED <<view, healthy, local_is_leader, healthiest, probed, restarts, crashes>>
    /\ UNCHANGED <<acquired, raceWins>>

\* governor.py:46: unconditional set of P/leader; the result is not looked at
InitTake(n) ==
    /\ pc[n] = "init_take"
    /\ \E ok \in BOOLEAN :
        /\ leader' = IF ok THEN n ELSE leader
        /\ leaderTtl' = IF ok THEN ttl ELSE leaderTtl
    /\ pc' = [pc EXCEPT ![n] = "init_start"]
    /\ UNCHANGED cfgVars
    /\ UNCHANGED adapterVars
    /\ UNCHANGED unitVars
    /\ UNCHANGED <<wait, failed, vacant, lingered>>
    /\ UNCHANGED <<members, initialize, optime>>
    /\ UNCHANGED dbVars
    /\ UNCHANGED <<view, healthy, local_is_leader, healthiest, probed, restarts, crashes>>
    /\ UNCHANGED <<acquired, raceWins, initdbBy>>

\* postgresql.py:248-263: start() leaves a running server alone; a started
\* server is a standby iff recovery.conf exists
start(n) ==
    IF is_running(n)
    THEN UNCHANGED <<dbState, inRecovery>>
    ELSE /\ dbState' = [dbState EXCEPT ![n] = "running"]
         /\ inRecovery' = [inRecovery EXCEPT ![n] = StartsInRecovery(recoveryConf[n])]

\* governor.py:47 and governor.py:54
InitStart(n) ==
    /\ pc[n] = "init_start"
    /\ start(n)
    /\ pc' = [pc EXCEPT ![n] = "run_touch"]
    /\ UNCHANGED cfgVars
    /\ UNCHANGED adapterVars
    /\ UNCHANGED unitVars
    /\ UNCHANGED <<wait, failed, vacant, lingered>>
    /\ UNCHANGED storeVars
    /\ UNCHANGED <<recoveryConf, xlog, is_promoted>>
    /\ UNCHANGED <<view, healthy, local_is_leader, healthiest, probed, restarts, crashes>>
    /\ UNCHANGED <<acquired, raceWins, initdbBy>>

\* write_recovery_conf leaving no file behind
write_recovery_conf_skipped(L) == "nofile"
\* postgresql.py:342-353: the file names the leader when it has a connection URL
write_recovery_conf(L) == IF L # None THEN L ELSE "noprimary"

\* postgresql.py:327-340
check_recovery_conf(conf, L) ==
    IF conf = "nofile" THEN FALSE
    ELSE IF conf = "noprimary" THEN L = None
    ELSE L # None /\ conf = L

\* governor.py:50-56: read the leader, copy its data; retried until both succeed.
\* pg_basebackup (postgresql.py:155-159) needs the leader's server to be running.
InitClone(n) ==
    /\ pc[n] = "init_clone"
    /\ \E ok \in BOOLEAN, synced \in BOOLEAN :
        LET L == IF ok THEN get_cluster.leader ELSE None
            done == L # None /\ synced /\ is_running(L)
        IN  /\ (L = None \/ ~is_running(L) => ~synced)
            /\ (~ok => ~synced)
            /\ dbState' = IF done THEN [dbState EXCEPT ![n] = "stopped"] ELSE dbState
            /\ xlog' = IF done THEN [xlog EXCEPT ![n] = xlog[L]] ELSE xlog
            /\ recoveryConf' = IF done THEN [recoveryConf EXCEPT ![n] = "other"]
                               ELSE recoveryConf
            /\ view' = IF done THEN [view EXCEPT ![n] = get_cluster] ELSE view
            /\ pc' = IF done THEN [pc EXCEPT ![n] = "init_writeconf"] ELSE pc
    /\ UNCHANGED cfgVars
    /\ UNCHANGED adapterVars
    /\ UNCHANGED unitVars
    /\ UNCHANGED <<wait, failed, vacant, lingered>>
    /\ UNCHANGED storeVars
    /\ UNCHANGED <<inRecovery, is_promoted>>
    /\ UNCHANGED <<healthy, local_is_leader, healthiest, probed, restarts, crashes>>
    /\ UNCHANGED <<acquired, raceWins, initdbBy>>

\* governor.py:53
InitWriteConf(n) ==
    /\ pc[n] = "init_writeconf"
    /\ recoveryConf' = [recoveryConf EXCEPT ![n] = write_recovery_conf(view[n].leader)]
    /\ pc' = [pc EXCEPT ![n] = "init_start"]
    /\ view' = [view EXCEPT ![n] = NoView]
    /\ UNCHANGED cfgVars
    /\ UNCHANGED adapterVars
    /\ UNCHANGED unitVars
    /\ UNCHANGED <<wait, failed, vacant, lingered>>
    /\ UNCHANGED storeVars
    /\ UNCHANGED <<dbState, inRecovery, xlog, is_promoted>>
    /\ UNCHANGED <<healthy, local_is_leader, healthiest, probed, restarts, crashes>>
    /\ UNCHANGED <<acquired, raceWins, initdbBy>>

\* ------------------------------------------------------------- run loop
\* governor.py:74, governor.py:30-32: the result of touch_member is not looked at
touch_member(n, ok) ==
    /\ pc[n] = "run_touch"
    /\ wait[n] = 0
    /\ members' = IF ok THEN [members EXCEPT ![n] = ttl] ELSE members
    /\ pc' = [pc EXCEPT ![n] = "cycle"]
    /\ UNCHANGED cfgVars
    /\ UNCHANGED adapterVars
    /\ UNCHANGED unitVars
    /\ UNCHANGED wait
    /\ UNCHANGED <<leader, leaderTtl, initialize, optime>>
    /\ UNCHANGED dbVars
    /\ UNCHANGED <<view, healthy, local_is_leader, healthiest, probed, restarts, crashes>>
    /\ UNCHANGED <<acquired, raceWins, initdbBy>>

RunTouch(n) ==
    /\ \E ok \in BOOLEAN : touch_member(n, ok)
    /\ UNCHANGED timeVars

\* the order in which cluster.members is walked
RECURSIVE SetToSeq(_)
SetToSeq(S) ==
    IF S = {} THEN <<>>
    ELSE LET m == CHOOSE x \in S : TRUE IN <<m>> \o SetToSeq(S \ {m})

\* MembersLoop with a member at the same position counted as ahead
RECURSIVE MembersLoop_ties(_, _, _)
MembersLoop_ties(n, ms, reach) ==
    IF ms = <<>> THEN TRUE
    ELSE LET member == Head(ms) IN
         IF member = n THEN MembersLoop_ties(n, Tail(ms), reach)
         ELSE IF member \notin reach THEN MembersLoop_ties(n, Tail(ms), reach)
         ELSE IF ~inRecovery[member] \/ xlog_position(n) - xlog[member] <= 0 THEN FALSE
         ELSE MembersLoop_ties(n, Tail(ms), reach)

\* postgresql.py:293-311: the loop over cluster.members; reach is the set of
\* members whose server accepts the connection
RECURSIVE MembersLoop(_, _, _)
MembersLoop(n, ms, reach) ==
    IF ms = <<>> THEN TRUE
    ELSE LET member == Head(ms) IN
         IF member = n THEN MembersLoop(n, Tail(ms), reach)
         ELSE IF member \notin reach THEN MembersLoop(n, Tail(ms), reach)
         ELSE IF ~inRecovery[member] \/ xlog_position(n) - xlog[member] < 0 THEN FALSE
         ELSE MembersLoop(n, Tail(ms), reach)

\* is_healthiest_node with the lag bound itself counted as too far behind
is_healthiest_node_lag_ge(n, cluster, reach) ==
    IF is_leader(n) THEN TRUE
    ELSE IF cluster.last_leader_operation - xlog_position(n) >= MaximumLagOnFailover THEN FALSE
    ELSE MembersLoop(n, SetToSeq(cluster.members), reach)

\* postgresql.py:286-312
is_healthiest_node(n, cluster, reach) ==
    IF is_leader(n) THEN TRUE
    ELSE IF cluster.last_leader_operation - xlog_position(n) > MaximumLagOnFailover THEN FALSE
    ELSE MembersLoop(n, SetToSeq(cluster.members), reach)

\* the inputs of a cycle: is_healthy(), is_leader() (postgresql.py:238-243),
\* get_cluster(), and the candidacy check when it will be needed
\* read_inputs going on to the dispatch after a failed get_cluster()
read_inputs_noabort(n, ok, reach) ==
    /\ pc[n] = "cycle"
    /\ LET h == is_healthy(n)
           l == IF h THEN is_leader(n) ELSE local_is_leader[n]
           v == get_cluster
       IN  /\ healthy' = [healthy EXCEPT ![n] = ok /\ h]
           /\ local_is_leader' = [local_is_leader EXCEPT ![n] = l]
           /\ is_promoted' = IF h /\ is_leader(n) THEN [is_promoted EXCEPT ![n] = FALSE]
                             ELSE is_promoted
           /\ view' = IF ok THEN [view EXCEPT ![n] = v] ELSE view
           /\ healthiest' = IF ok /\ h /\ ~l /\ v.leader = None
                            THEN [healthiest EXCEPT ![n] = is_healthiest_node(n, v, reach)]
                            ELSE [healthiest EXCEPT ![n] = FALSE]
           /\ (~(ok /\ h /\ ~l /\ v.leader = None) => reach = {})
           /\ reach \subseteq v.members
           /\ probed' = [probed EXCEPT ![n] = reach]
           /\ pc' = [pc EXCEPT ![n] = "act"]
           /\ wait' = wait
    /\ UNCHANGED cfgVars
    /\ UNCHANGED adapterVars
    /\ UNCHANGED unitVars
    /\ UNCHANGED storeVars
    /\ UNCHANGED <<dbState, inRecovery, recoveryConf, xlog>>
    /\ UNCHANGED <<restarts, crashes>>
    /\ UNCHANGED <<acquired, raceWins, initdbBy>>

\* A failed get_cluster() ends the cycle, and the loop sleeps (governor.py:76).
read_inputs(n, ok, reach) ==
    /\ pc[n] = "cycle"
    /\ LET h == is_healthy(n)
           l == IF h THEN is_leader(n) ELSE local_is_leader[n]
           v == get_cluster
       IN  /\ healthy' = [healthy EXCEPT ![n] = ok /\ h]
           /\ local_is_leader' = [local_is_leader EXCEPT ![n] = l]
           /\ is_promoted' = IF h /\ is_leader(n) THEN [is_promoted EXCEPT ![n] = FALSE]
                             ELSE is_promoted
           /\ view' = IF ok THEN [view EXCEPT ![n] = v] ELSE view
           /\ healthiest' = IF ok /\ h /\ ~l /\ v.leader = None
                            THEN [healthiest EXCEPT ![n] = is_healthiest_node(n, v, reach)]
                            ELSE [healthiest EXCEPT ![n] = FALSE]
           /\ (~(ok /\ h /\ ~l /\ v.leader = None) => reach = {})
           /\ reach \subseteq v.members
           /\ probed' = [probed EXCEPT ![n] = reach]
           /\ pc' = [pc EXCEPT ![n] = IF ok THEN "act" ELSE "run_touch"]
           /\ wait' = IF ok THEN wait ELSE [wait EXCEPT ![n] = loop_wait]
    /\ UNCHANGED cfgVars
    /\ UNCHANGED adapterVars
    /\ UNCHANGED unitVars
    /\ UNCHANGED storeVars
    /\ UNCHANGED <<dbState, inRecovery, recoveryConf, xlog>>
    /\ UNCHANGED <<restarts, crashes>>
    /\ UNCHANGED <<acquired, raceWins, initdbBy>>

Observe(n) ==
    /\ \E ok \in BOOLEAN, reach \in SUBSET {m \in Nodes : is_running(m)} :
        read_inputs(n, ok, reach)
    /\ UNCHANGED timeVars

\* the decision table: the first matching row
Decision(n, h, l, v, hst) ==
    IF ~h THEN (IF l THEN "release" ELSE "unhealthy")
    ELSE IF l THEN (IF v.leader = n THEN "renew"
                    ELSE IF v.leader # None THEN "demote"
                    ELSE "regain")
    ELSE IF v.leader = n THEN "promote"
    ELSE IF v.leader # None THEN "follow"
    ELSE IF hst THEN "acquire"
    ELSE "idle"

\* postgresql.py:355-360: rewrite and restart only when the file does not match
follow_the_leader(n, L) ==
    IF ~check_recovery_conf(recoveryConf[n], L)
    THEN /\ recoveryConf' = [recoveryConf EXCEPT ![n] = write_recovery_conf(L)]
         /\ dbState' = [dbState EXCEPT ![n] = "running"]
         /\ inRecovery' = [inRecovery EXCEPT ![n] = StartsInRecovery(write_recovery_conf(L))]
    ELSE UNCHANGED <<recoveryConf, dbState, inRecovery>>

\* postgresql.py:384-385
demote(n, L) == follow_the_leader(n, L)

\* postgresql.py:378-382: pg_ctl promote succeeds on a running standby; the
\* server then leaves recovery and puts recovery.conf aside
promote(n) ==
    IF is_running(n) /\ inRecovery[n]
    THEN /\ inRecovery' = [inRecovery EXCEPT ![n] = FALSE]
         /\ recoveryConf' = [recoveryConf EXCEPT ![n] = "nofile"]
         /\ is_promoted' = [is_promoted EXCEPT ![n] = TRUE]
    ELSE /\ is_promoted' = [is_promoted EXCEPT ![n] = FALSE]
         /\ UNCHANGED <<inRecovery, recoveryConf>>

\* attempt_to_acquire_leader as a plain set
attempt_to_acquire_leader_blind(ok) == ok
\* compare-and-set on absence of P/leader
attempt_to_acquire_leader(ok) == ok /\ leader = None
\* the acquire row promoting whatever the acquisition returned
PromoteOnAcquire_always(won) == TRUE
\* the acquire row: on success DA.promote()
PromoteOnAcquire(won) == won
\* compare-and-set guarded on the previous value being the caller's name
update_leader(n, ok) == ok /\ leader = n
\* conditional delete guarded on the value being the caller's name
delete_leader(n, ok) == ok /\ leader = n

\* the dispatch of the decided action, and the sleep that ends the cycle
\* (governor.py:76); ok: the store call succeeds, ok2: the optime write does
run_cycle(n, ok, ok2) ==
    /\ pc[n] = "act"
    /\  LET d == Decision(n, healthy[n], local_is_leader[n], view[n], healthiest[n])
            L == view[n].leader
        IN  /\ (d \in {"unhealthy", "demote", "promote", "follow", "idle"} => ok)
            /\ (~(d \in {"renew", "regain"} /\ update_leader(n, ok)) => ok2)
            /\ CASE d = "release" ->
                    /\ leader' = IF delete_leader(n, ok) THEN None ELSE leader
                    /\ leaderTtl' = IF delete_leader(n, ok) THEN 0 ELSE leaderTtl
                    /\ acquired' = IF delete_leader(n, ok) THEN 0 ELSE acquired
                    /\ UNCHANGED <<optime, dbVars>>
                 [] d \in {"unhealthy", "idle"} ->
                    /\ UNCHANGED <<leader, leaderTtl, optime, acquired, dbVars>>
                 [] d \in {"renew", "regain"} ->
                    /\ leaderTtl' = IF update_leader(n, ok) THEN ttl ELSE leaderTtl
                    /\ optime' = IF update_leader(n, ok) /\ ok2 THEN last_operation(n)
                                 ELSE optime
                    /\ UNCHANGED <<leader, acquired, dbVars>>
                 [] d = "demote" ->
                    /\ demote(n, L)
                    /\ UNCHANGED <<leader, leaderTtl, optime, acquired, xlog, is_promoted>>
                 [] d = "follow" ->
                    /\ follow_the_leader(n, L)
                    /\ UNCHANGED <<leader, leaderTtl, optime, acquired, xlog, is_promoted>>
                 [] d = "promote" ->
                    /\ promote(n)
                    /\ UNCHANGED <<leader, leaderTtl, optime, acquired, dbState, xlog>>
                 [] d = "acquire" ->
                    /\ leader' = IF attempt_to_acquire_leader(ok) THEN n ELSE leader
                    /\ leaderTtl' = IF attempt_to_acquire_leader(ok) THEN ttl ELSE leaderTtl
                    /\ acquired' = IF attempt_to_acquire_leader(ok) THEN acquired + 1
                                   ELSE acquired
                    /\ IF PromoteOnAcquire(attempt_to_acquire_leader(ok))
                       THEN promote(n)
                       ELSE UNCHANGED <<inRecovery, recoveryConf, is_promoted>>
                    /\ UNCHANGED <<optime, dbState, xlog>>
    /\ pc' = [pc EXCEPT ![n] = "run_touch"]
    /\ wait' = [wait EXCEPT ![n] = loop_wait]
    /\ view' = [view EXCEPT ![n] = NoView]
    /\ healthy' = [healthy EXCEPT ![n] = FALSE]
    /\ healthiest' = [healthiest EXCEPT ![n] = FALSE]
    /\ probed' = [probed EXCEPT ![n] = {}]
    /\ UNCHANGED cfgVars
    /\ UNCHANGED adapterVars
    /\ UNCHANGED unitVars
    /\ UNCHANGED <<members, initialize>>
    /\ UNCHANGED <<local_is_leader, restarts, crashes>>
    /\ UNCHANGED <<raceWins, initdbBy>>

Act(n) ==
    /\ \E ok \in BOOLEAN, ok2 \in BOOLEAN : run_cycle(n, ok, ok2)
    /\ UNCHANGED timeVars

\* ------------------------------------------------------------- teardown
\* governor.py:95-97: an interrupt ends initialize() or run(); it is taken where
\* the supervisor sleeps (governor.py:39, 56, 67)
Interrupt(n) ==
    /\ pc[n] \in {"init_touch", "init_clone", "run_touch"}
    /\ pc' = [pc EXCEPT ![n] = "td_touch"]
    /\ wait' = [wait EXCEPT ![n] = 0]
    /\ UNCHANGED cfgVars
    /\ UNCHANGED adapterVars
    /\ UNCHANGED unitVars
    /\ UNCHANGED timeVars
    /\ UNCHANGED storeVars
    /\ UNCHANGED dbVars
    /\ UNCHANGED <<view, healthy, local_is_leader, healthiest, probed, restarts, crashes>>
    /\ UNCHANGED <<acquired, raceWins, initdbBy>>

\* governor.py:98
td_touch(n, grace) ==
    /\ pc[n] = "td_touch"
    /\ \E ok \in BOOLEAN :
        /\ members' = IF ok THEN [members EXCEPT ![n] = grace] ELSE members
    /\ pc' = [pc EXCEPT ![n] = "td_stop"]
    /\ UNCHANGED cfgVars
    /\ UNCHANGED adapterVars
    /\ UNCHANGED unitVars
    /\ UNCHANGED <<wait, failed, vacant, lingered>>
    /\ UNCHANGED <<leader, leaderTtl, initialize, optime>>
    /\ UNCHANGED dbVars
    /\ UNCHANGED <<view, healthy, local_is_leader, healthiest, probed, restarts, crashes>>
    /\ UNCHANGED <<acquired, raceWins, initdbBy>>

\* governor.py:98, in the time units of the untimed specification
TdTouch(n) == td_touch(n, GraceTtl)

\* teardown leaving the server up
stop_skipped(n) == dbState' = dbState
\* postgresql.py:265-266
stop(n) ==
    dbState' = [dbState EXCEPT ![n] = IF is_running(n) THEN "stopped" ELSE dbState[n]]

\* governor.py:99
TdStop(n) ==
    /\ pc[n] = "td_stop"
    /\ stop(n)
    /\ pc' = [pc EXCEPT ![n] = "td_delete"]
    /\ UNCHANGED cfgVars
    /\ UNCHANGED adapterVars
    /\ UNCHANGED unitVars
    /\ UNCHANGED <<wait, failed, vacant, lingered>>
    /\ UNCHANGED storeVars
    /\ UNCHANGED <<inRecovery, recoveryConf, xlog, is_promoted>>
    /\ UNCHANGED <<view, healthy, local_is_leader, healthiest, probed, restarts, crashes>>
    /\ UNCHANGED <<acquired, raceWins, initdbBy>>

\* governor.py:100
TdDelete(n) ==
    /\ pc[n] = "td_delete"
    /\ \E ok \in BOOLEAN :
        /\ leader' = IF delete_leader(n, ok) THEN None ELSE leader
        /\ leaderTtl' = IF delete_leader(n, ok) THEN 0 ELSE leaderTtl
        /\ acquired' = IF delete_leader(n, ok) THEN 0 ELSE acquired
    /\ pc' = [pc EXCEPT ![n] = "exited"]
    /\ UNCHANGED cfgVars
    /\ UNCHANGED adapterVars
    /\ UNCHANGED unitVars
    /\ UNCHANGED <<wait, failed, vacant, lingered>>
    /\ UNCHANGED <<members, initialize, optime>>
    /\ UNCHANGED dbVars
    /\ UNCHANGED <<view, healthy, local_is_leader, healthiest, probed, restarts, crashes>>
    /\ UNCHANGED <<raceWins, initdbBy>>

\* governor.py:91-94: the process is started again; postgresql.py:51 is_promoted
Restart(n) ==
    /\ pc[n] = "exited"
    /\ restarts < MaxRestarts
    /\ restarts' = restarts + 1
    /\ UNCHANGED crashes
    /\ pc' = [pc EXCEPT ![n] = "init_touch"]
    /\ view' = [view EXCEPT ![n] = NoView]
    /\ healthy' = [healthy EXCEPT ![n] = FALSE]
    /\ local_is_leader' = [local_is_leader EXCEPT ![n] = FALSE]
    /\ healthiest' = [healthiest EXCEPT ![n] = FALSE]
    /\ probed' = [probed EXCEPT ![n] = {}]
    /\ is_promoted' = [is_promoted EXCEPT ![n] = FALSE]
    /\ UNCHANGED cfgVars
    /\ UNCHANGED adapterVars
    /\ UNCHANGED unitVars
    /\ UNCHANGED <<wait, failed, vacant, lingered>>
    /\ UNCHANGED storeVars
    /\ UNCHANGED <<dbState, inRecovery, recoveryConf, xlog>>
    /\ UNCHANGED <<acquired, raceWins, initdbBy>>

\* ---------------------------------------------------------- environment
\* one unit of time passes: every TTL runs down, a key at 0 is gone
TimePasses ==
    /\ leaderTtl' = IF leaderTtl > 0 THEN leaderTtl - 1 ELSE 0
    /\ leader' = IF leaderTtl <= 1 THEN None ELSE leader
    /\ acquired' = IF leaderTtl <= 1 THEN 0 ELSE acquired
    /\ members' = [m \in Nodes |-> IF members[m] > 0 THEN members[m] - 1 ELSE 0]
    /\ wait' = [m \in Nodes |-> IF wait[m] > 0 THEN wait[m] - 1 ELSE 0]
    /\ UNCHANGED cfgVars
    /\ UNCHANGED adapterVars
    /\ UNCHANGED unitVars
    /\ UNCHANGED <<initialize, optime>>
    /\ UNCHANGED dbVars
    /\ UNCHANGED supVars
    /\ UNCHANGED <<raceWins, initdbBy>>

\* time passes however late a supervisor is
Tick ==
    /\ leaderTtl > 0 \/ \E m \in Nodes : members[m] > 0 \/ wait[m] > 0
    /\ TimePasses
    /\ UNCHANGED timeVars

\* a client commits on a writable database
Write(n) ==
    /\ Writable(n)
    /\ xlog[n] < MaxXlog
    /\ xlog' = [xlog EXCEPT ![n] = @ + 1]
    /\ UNCHANGED cfgVars
    /\ UNCHANGED adapterVars
    /\ UNCHANGED unitVars
    /\ UNCHANGED <<wait, failed, vacant, lingered>>
    /\ UNCHANGED storeVars
    /\ UNCHANGED <<dbState, inRecovery, recoveryConf, is_promoted>>
    /\ UNCHANGED supVars
    /\ UNCHANGED <<acquired, raceWins, initdbBy>>

\* a standby replays what it streams from the primary recovery.conf names
Replay(n) ==
    /\ is_running(n) /\ inRecovery[n]
    /\ recoveryConf[n] \in Nodes
    /\ Writable(recoveryConf[n])
    /\ xlog[n] < xlog[recoveryConf[n]]
    /\ xlog' = [xlog EXCEPT ![n] = @ + 1]
    /\ UNCHANGED cfgVars
    /\ UNCHANGED adapterVars
    /\ UNCHANGED unitVars
    /\ UNCHANGED <<wait, failed, vacant, lingered>>
    /\ UNCHANGED storeVars
    /\ UNCHANGED <<dbState, inRecovery, recoveryConf, is_promoted>>
    /\ UNCHANGED supVars
    /\ UNCHANGED <<acquired, raceWins, initdbBy>>

\* the database server dies
DbCrash(n) ==
    /\ is_running(n)
    /\ crashes < MaxCrashes
    /\ crashes' = crashes + 1
    /\ dbState' = [dbState EXCEPT ![n] = "stopped"]
    /\ UNCHANGED cfgVars
    /\ UNCHANGED adapterVars
    /\ UNCHANGED unitVars
    /\ UNCHANGED <<wait, failed, vacant, lingered>>
    /\ UNCHANGED storeVars
    /\ UNCHANGED <<inRecovery, recoveryConf, xlog, is_promoted>>
    /\ UNCHANGED <<pc, view, healthy, local_is_leader, healthiest, probed, restarts>>
    /\ UNCHANGED <<acquired, raceWins, initdbBy>>

Next ==
    \/ \E n \in Nodes :
        \/ InitTouch(n)
        \/ InitDatadir(n)
        \/ InitInitdb(n)
        \/ InitTake(n)
        \/ InitStart(n)
        \/ InitClone(n)
        \/ InitWriteConf(n)
        \/ RunTouch(n)
        \/ Observe(n)
        \/ Act(n)
        \/ Interrupt(n)
        \/ TdTouch(n)
        \/ TdStop(n)
        \/ TdDelete(n)
        \/ Restart(n)
        \/ Write(n)
        \/ Replay(n)
        \/ DbCrash(n)
    \/ Tick

Spec == Init /\ [][Next]_vars
\* ------------------------------------------------------- leader loss
\* The state a cold start of two or three supervisors ends in: A won the race
\* and leads, the others were cloned from A and follow it; positions and the
\* last renewal's optime are any the bounds allow.  From here on A is frozen:
\* its supervisor takes no step, and its database server is either still up
\* (the supervisor alone is stuck) or down (the host is).
Standbys == {{"B"}, {"B", "C"}}

LossInit ==
    /\ loop_wait = LoopWait0
    /\ ttl = Ttl0
    /\ ConfigOk(loop_wait, ttl)
    /\ leader = "A"
    /\ leaderTtl = ttl
    /\ initialize = "A"
    /\ \E S \in Standbys :
        /\ members = [n \in Nodes |-> IF n \in S \cup {"A"} THEN ttl ELSE 0]
        /\ dbState \in [Nodes -> {"empty", "stopped", "running"}]
        /\ \A n \in Nodes : dbState[n] = "empty" <=> n \notin S \cup {"A"}
        /\ \A n \in S : dbState[n] = "running"
        /\ inRecovery = [n \in Nodes |-> n \in S]
        /\ recoveryConf = [n \in Nodes |-> IF n \in S THEN "A" ELSE "nofile"]
        /\ xlog \in [Nodes -> 0..MaxXlog]
        /\ \A n \in Nodes : xlog[n] <= xlog["A"]
        /\ \A n \in Nodes \ (S \cup {"A"}) : xlog[n] = 0
        /\ pc = [n \in Nodes |-> IF n \in S THEN "run_touch" ELSE "off"]
    /\ optime \in 0..MaxXlog
    /\ optime <= xlog["A"]
    /\ is_promoted = [n \in Nodes |-> FALSE]
    /\ view = [n \in Nodes |-> NoView]
    /\ healthy = [n \in Nodes |-> FALSE]
    /\ local_is_leader = [n \in Nodes |-> n = "A"]
    /\ healthiest = [n \in Nodes |-> FALSE]
    /\ probed = [n \in Nodes |-> {}]
    /\ restarts = 0
    /\ crashes = 0
    /\ wait = [n \in Nodes |-> 0]
    /\ failed = [n \in Nodes |-> 0]
    /\ vacant = 0
    /\ lingered = 0
    /\ acquired = 0
    /\ raceWins = {"A"}
    /\ initdbBy = {"A"}
    /\ AdapterNew
    /\ UnitsIdle

LossNext ==
    \/ \E n \in Nodes :
        \/ RunTouch(n)
        \/ Observe(n)
        \/ Act(n)
        \/ Write(n)
        \/ Replay(n)
    \/ Tick

LossSpec == LossInit /\ [][LossNext]_vars

\* The store answers: the call of this step did what the store was asked.
Touched(n) == RunTouch(n) /\ members'[n] = ttl
Observed(n) == Observe(n) /\ pc'[n] = "act"
Acted(n) ==
    /\ Act(n)
    /\ (leader = None /\ healthiest[n]) => leader' = n
    /\ leader = n => (leader' = None \/ leaderTtl' = ttl)

\* The loop of a live supervisor goes on (governor.py:73-76), the store answers
\* its calls again and again, time passes, and a standby whose primary is up
\* replays what it has not yet got.
LossFairness ==
    /\ WF_vars(Tick)
    /\ \A n \in Nodes \ {"A"} :
        /\ SF_vars(Touched(n))
        /\ SF_vars(Observed(n))
        /\ SF_vars(Acted(n))
        /\ WF_vars(Replay(n))

\* the cluster of two: A frozen, B its only standby
PairLossInit == LossInit /\ pc["C"] = "off"

LossFairSpec == PairLossInit /\ [][LossNext]_vars /\ LossFairness

\* ------------------------------------------------------ ticks on time
\* config["loop_wait"] of the timed specification, in time units
LoopWaitT == 1
TtlT == 2 * LoopWaitT + TtlSlack0

\* A leads and B follows it, both supervisors have just finished a cycle.  Any
\* ttl the supervisor accepts at start (governor.py:19), up to TtlT.
TimedInit ==
    /\ loop_wait = LoopWaitT
    /\ ttl \in 1..TtlT
    /\ ConfigOk(loop_wait, ttl)
    /\ leader = "A"
    /\ leaderTtl = ttl
    /\ members = [n \in Nodes |-> IF n \in ColdNodes THEN ttl ELSE 0]
    /\ initialize = "A"
    /\ dbState = [n \in Nodes |-> IF n \in ColdNodes THEN "running" ELSE "empty"]
    /\ inRecovery = [n \in Nodes |-> n = "B"]
    /\ recoveryConf = [n \in Nodes |-> IF n = "B" THEN "A" ELSE "nofile"]
    /\ xlog \in [Nodes -> 0..MaxXlog]
    /\ xlog["B"] <= xlog["A"] /\ xlog["C"] = 0
    /\ optime = xlog["A"]
    /\ is_promoted = [n \in Nodes |-> FALSE]
    /\ pc = [n \in Nodes |-> IF n \in ColdNodes THEN "run_touch" ELSE "off"]
    /\ view = [n \in Nodes |-> NoView]
    /\ healthy = [n \in Nodes |-> FALSE]
    /\ local_is_leader = [n \in Nodes |-> n = "A"]
    /\ healthiest = [n \in Nodes |-> FALSE]
    /\ probed = [n \in Nodes |-> {}]
    /\ restarts = 0
    /\ crashes = 0
    /\ wait = [n \in Nodes |-> IF n \in ColdNodes THEN loop_wait ELSE 0]
    /\ failed = [n \in Nodes |-> 0]
    /\ vacant = 0
    /\ lingered = 0
    /\ acquired = 0
    /\ raceWins = {"A"}
    /\ initdbBy = {"A"}
    /\ AdapterNew
    /\ UnitsIdle

\* the supervisors holding the lease with a writable database
LiveLeaders == {n \in Nodes : leader = n /\ Writable(n)}

\* A cycle in which a store call fails is a failed cycle; a supervisor has no
\* two failed cycles in a row.
MayFail(n) == failed[n] # 2

TimedTouch(n) ==
    \E ok \in BOOLEAN :
        /\ ~ok => MayFail(n)
        /\ touch_member(n, ok)
        /\ failed' = IF ok THEN failed ELSE [failed EXCEPT ![n] = 1]
        /\ UNCHANGED <<vacant, lingered>>

TimedObserve(n) ==
    \E ok \in BOOLEAN, reach \in SUBSET {m \in Nodes : is_running(m)} :
        /\ ~ok => MayFail(n)
        /\ read_inputs(n, ok, reach)
        /\ failed' = IF ok THEN failed ELSE [failed EXCEPT ![n] = 2]
        /\ UNCHANGED <<vacant, lingered>>

TimedAct(n) ==
    \E ok \in BOOLEAN, ok2 \in BOOLEAN :
        /\ ~ok => MayFail(n)
        /\ run_cycle(n, ok, ok2)
        /\ failed' = [failed EXCEPT ![n] = IF ~ok \/ failed[n] = 1 THEN 2 ELSE 0]
        /\ UNCHANGED <<vacant, lingered>>

\* A unit of time passes once every supervisor has run the cycle that was due.
PunctualTick ==
    /\ \A n \in Nodes : pc[n] # "off" => (pc[n] = "run_touch" /\ wait[n] > 0)
    /\ TimePasses
    /\ vacant' = IF LiveLeaders # {} THEN 0
                  ELSE IF vacant <= ttl THEN vacant + 1 ELSE vacant
    /\ UNCHANGED <<failed, lingered>>

TimedNext ==
    \/ \E n \in Nodes :
        \/ TimedTouch(n)
        \/ TimedObserve(n)
        \/ TimedAct(n)
        \/ Write(n)
        \/ Replay(n)
        \/ DbCrash(n)
    \/ PunctualTick

TimedSpec == TimedInit /\ [][TimedNext]_vars

\* ------------------------------------------------ the candidacy check
\* is_healthiest_node on its own: any member set, any optime, any roles and
\* positions of three running servers, any set of servers that answer.
HealthInit ==
    /\ loop_wait = LoopWait0
    /\ ttl = Ttl0
    /\ ConfigOk(loop_wait, ttl)
    /\ leader = None
    /\ leaderTtl = 0
    /\ members \in [Nodes -> {0, ttl}]
    /\ initialize = "A"
    /\ optime \in 0..MaxXlog
    /\ dbState = [n \in Nodes |-> "running"]
    /\ inRecovery \in [Nodes -> BOOLEAN]
    /\ recoveryConf = [n \in Nodes |-> IF inRecovery[n] THEN "noprimary" ELSE "nofile"]
    /\ xlog \in [Nodes -> 0..MaxXlog]
    /\ is_promoted = [n \in Nodes |-> FALSE]
    /\ pc = [n \in Nodes |-> "check"]
    /\ view = [n \in Nodes |-> NoView]
    /\ healthy = [n \in Nodes |-> FALSE]
    /\ local_is_leader = [n \in Nodes |-> FALSE]
    /\ healthiest = [n \in Nodes |-> FALSE]
    /\ probed = [n \in Nodes |-> {}]
    /\ restarts = 0
    /\ crashes = 0
    /\ wait = [n \in Nodes |-> 0]
    /\ failed = [n \in Nodes |-> 0]
    /\ vacant = 0
    /\ lingered = 0
    /\ acquired = 0
    /\ raceWins = {"A"}
    /\ initdbBy = {"A"}
    /\ AdapterNew
    /\ UnitsIdle

HealthCheck(n) ==
    /\ \A m \in Nodes : pc[m] = "check"
    /\ is_running(n)
    /\ \E reach \in SUBSET {m \in Nodes : is_running(m)} :
        /\ view' = [view EXCEPT ![n] = get_cluster]
        /\ healthiest' = [healthiest EXCEPT ![n] = is_healthiest_node(n, get_cluster, reach)]
        /\ probed' = [probed EXCEPT ![n] = reach]
    /\ pc' = [pc EXCEPT ![n] = "checked"]
    /\ UNCHANGED cfgVars
    /\ UNCHANGED adapterVars
    /\ UNCHANGED unitVars
    /\ UNCHANGED <<wait, failed, vacant, lingered>>
    /\ UNCHANGED storeVars
    /\ UNCHANGED dbVars
    /\ UNCHANGED <<healthy, local_is_leader, restarts, crashes>>
    /\ UNCHANGED <<acquired, raceWins, initdbBy>>

HealthNext == \E n \in Nodes : HealthCheck(n)

HealthSpec == HealthInit /\ [][HealthNext]_vars

\* ---------------------------------------------------- construction
\* Two supervisors are about to be constructed with a configuration that may
\* be any: loop_wait up to MaxLoopWait, etcd.ttl up to one more than the
\* assertion asks for.  Nothing has been written anywhere.
ConstructInit ==
    /\ loop_wait \in 0..MaxLoopWait
    /\ ttl \in 0..(2 * MaxLoopWait + TtlSlack0 + 1)
    /\ leader = None
    /\ leaderTtl = 0
    /\ members = [n \in Nodes |-> 0]
    /\ initialize = None
    /\ optime = 0
    /\ dbState = [n \in Nodes |-> "empty"]
    /\ inRecovery = [n \in Nodes |-> FALSE]
    /\ recoveryConf = [n \in Nodes |-> "nofile"]
    /\ xlog = [n \in Nodes |-> 0]
    /\ is_promoted = [n \in Nodes |-> FALSE]
    /\ pc = [n \in Nodes |-> IF n \in ColdNodes THEN "new" ELSE "off"]
    /\ view = [n \in Nodes |-> NoView]
    /\ healthy = [n \in Nodes |-> FALSE]
    /\ local_is_leader = [n \in Nodes |-> FALSE]
    /\ healthiest = [n \in Nodes |-> FALSE]
    /\ probed = [n \in Nodes |-> {}]
    /\ restarts = 0
    /\ crashes = 0
    /\ wait = [n \in Nodes |-> 0]
    /\ failed = [n \in Nodes |-> 0]
    /\ vacant = 0
    /\ lingered = 0
    /\ acquired = 0
    /\ raceWins = {}
    /\ initdbBy = {}
    /\ AdapterNew
    /\ UnitsIdle

\* governor.py:18-19, 91: Governor(config) is called outside main's try, so a
\* failed assertion ends the process with no teardown
Construct(n) ==
    /\ pc[n] = "new"
    /\ pc' = [pc EXCEPT ![n] = IF ConfigOk(loop_wait, ttl) THEN "init_touch" ELSE "aborted"]
    /\ UNCHANGED cfgVars
    /\ UNCHANGED adapterVars
    /\ UNCHANGED unitVars
    /\ UNCHANGED <<wait, failed, vacant, lingered>>
    /\ UNCHANGED storeVars
    /\ UNCHANGED dbVars
    /\ UNCHANGED <<view, healthy, local_is_leader, healthiest, probed, restarts, crashes>>
    /\ UNCHANGED <<acquired, raceWins, initdbBy>>

\* construction and the bootstrap that follows it, up to the start of the
\* server
ConstructNext ==
    \/ \E n \in Nodes :
        \/ Construct(n)
        \/ InitTouch(n)
        \/ InitDatadir(n)
        \/ InitInitdb(n)
        \/ InitTake(n)
        \/ InitStart(n)
        \/ InitClone(n)
        \/ InitWriteConf(n)
        \/ RunTouch(n)
    \/ Tick

ConstructSpec == ConstructInit /\ [][ConstructNext]_vars

\* ------------------------------------------------------- departure
\* the TTL of the member entry written on teardown (governor.py:98), in the
\* time units of the timed specifications, rounded up
GraceTtlT == (GraceSeconds + TimedUnitSeconds - 1) \div TimedUnitSeconds

\* A leads and B follows it, ticks on time as in the timed specification; B's
\* supervisor is interrupted while it sleeps and tears down, which takes no
\* time.
DepartInit == TimedInit

\* governor.py:98
TimedTdTouch(n) == td_touch(n, GraceTtlT)

\* a cycle's reading of its inputs; a cluster view that lists a supervisor
\* that has exited is counted
DepartObserve(n) ==
    \E ok \in BOOLEAN, reach \in SUBSET {m \in Nodes : is_running(m)} :
        /\ ~ok => MayFail(n)
        /\ read_inputs(n, ok, reach)
        /\ failed' = IF ok THEN failed ELSE [failed EXCEPT ![n] = 2]
        /\ lingered' = IF \E m \in view'[n].members : pc[m] = "exited"
                       THEN (IF lingered < MaxLingered THEN lingered + 1 ELSE lingered)
                       ELSE lingered
        /\ UNCHANGED vacant

\* A unit of time passes once every supervisor still there has run the cycle
\* that was due.
DepartTick ==
    /\ \A n \in Nodes : pc[n] \in {"off", "exited"} \/ (pc[n] = "run_touch" /\ wait[n] > 0)
    /\ TimePasses
    /\ vacant' = IF LiveLeaders # {} THEN 0
                  ELSE IF vacant <= ttl THEN vacant + 1 ELSE vacant
    /\ UNCHANGED <<failed, lingered>>

DepartNext ==
    \/ \E n \in Nodes :
        \/ TimedTouch(n)
        \/ DepartObserve(n)
        \/ TimedAct(n)
        \/ Write(n)
        \/ Replay(n)
    \/ Interrupt("B")
    \/ TimedTdTouch("B")
    \/ TdStop("B")
    \/ TdDelete("B")
    \/ DepartTick

DepartSpec == DepartInit /\ [][DepartNext]_vars

\* ------------------------------------------------- graceful shutdown
\* A leads and B follows it, both supervisors in their loops, C not deployed;
\* B's position and the optime of A's last renewal are any the bounds allow.
\* A's supervisor may be interrupted at any time and then tears down
\* (governor.py:95-100).
ShutdownInit ==
    /\ loop_wait = LoopWait0
    /\ ttl = Ttl0
    /\ ConfigOk(loop_wait, ttl)
    /\ leader = "A"
    /\ leaderTtl = ttl
    /\ initialize = "A"
    /\ members = [n \in Nodes |-> IF n \in ColdNodes THEN ttl ELSE 0]
    /\ dbState = [n \in Nodes |-> IF n \in ColdNodes THEN "running" ELSE "empty"]
    /\ inRecovery = [n \in Nodes |-> n = "B"]
    /\ recoveryConf = [n \in Nodes |-> IF n = "B" THEN "A" ELSE "nofile"]
    /\ xlog \in [Nodes -> 0..MaxXlog]
    /\ xlog["B"] <= xlog["A"] /\ xlog["C"] = 0
    /\ optime \in 0..MaxXlog
    /\ optime <= xlog["A"]
    /\ is_promoted = [n \in Nodes |-> FALSE]
    /\ pc = [n \in Nodes |-> IF n \in ColdNodes THEN "run_touch" ELSE "off"]
    /\ view = [n \in Nodes |-> NoView]
    /\ healthy = [n \in Nodes |-> FALSE]
    /\ local_is_leader = [n \in Nodes |-> n = "A"]
    /\ healthiest = [n \in Nodes |-> FALSE]
    /\ probed = [n \in Nodes |-> {}]
    /\ restarts = 0
    /\ crashes = 0
    /\ wait = [n \in Nodes |-> 0]
    /\ failed = [n \in Nodes |-> 0]
    /\ vacant = 0
    /\ lingered = 0
    /\ acquired = 0
    /\ raceWins = {"A"}
    /\ initdbBy = {"A"}
    /\ AdapterNew
    /\ UnitsIdle

ShutdownNext ==
    \/ \E n \in Nodes :
        \/ RunTouch(n)
        \/ Observe(n)
        \/ Act(n)
        \/ Write(n)
        \/ Replay(n)
    \/ Interrupt("A")
    \/ TdTouch("A")
    \/ TdStop("A")
    \/ TdDelete("A")
    \/ Tick

\* An interrupted supervisor goes through its teardown (governor.py:97-100);
\* the loop of the other goes on, the store answers its calls again and
\* again, time passes, and a standby whose primary is up replays.
ShutdownFairness ==
    /\ WF_vars(Tick)
    /\ WF_vars(TdTouch("A"))
    /\ WF_vars(TdStop("A"))
    /\ WF_vars(TdDelete("A"))
    /\ SF_vars(Touched("B"))
    /\ SF_vars(Observed("B"))
    /\ SF_vars(Acted("B"))
    /\ WF_vars(Replay("B"))

ShutdownSpec == ShutdownInit /\ [][ShutdownNext]_vars /\ ShutdownFairness

\* ------------------------------------------------ one adapter in detail
\* a node that is down, the store holding its /initialize marker only
Detached ==
    /\ loop_wait = LoopWait0
    /\ ttl = Ttl0
    /\ ConfigOk(loop_wait, ttl)
    /\ leader = None
    /\ leaderTtl = 0
    /\ members = [n \in Nodes |-> 0]
    /\ initialize = Me
    /\ optime = 0
    /\ dbState = [n \in Nodes |-> IF n = Me THEN "stopped" ELSE "empty"]
    /\ inRecovery = [n \in Nodes |-> FALSE]
    /\ recoveryConf = [n \in Nodes |-> "nofile"]
    /\ xlog = [n \in Nodes |-> 0]
    /\ is_promoted = [n \in Nodes |-> FALSE]
    /\ pc = [n \in Nodes |-> "off"]
    /\ view = [n \in Nodes |-> NoView]
    /\ healthy = [n \in Nodes |-> FALSE]
    /\ local_is_leader = [n \in Nodes |-> FALSE]
    /\ healthiest = [n \in Nodes |-> FALSE]
    /\ probed = [n \in Nodes |-> {}]
    /\ restarts = 0
    /\ crashes = 0
    /\ wait = [n \in Nodes |-> 0]
    /\ failed = [n \in Nodes |-> 0]
    /\ vacant = 0
    /\ lingered = 0
    /\ acquired = 0
    /\ raceWins = {Me}
    /\ initdbBy = {Me}

\* The adapter of node Me on its own, its methods called in any order the
\* supervisor can call them in, with any leader and any member set a cluster
\* view can hold.  The data directory exists and the server is stopped.
AdapterInit ==
    /\ Detached
    /\ AdapterNew
    /\ UnitsIdle

\* what no adapter method touches
AdapterFrame ==
    /\ UNCHANGED cfgVars
    /\ UNCHANGED storeVars
    /\ UNCHANGED xlog
    /\ UNCHANGED supVars
    /\ UNCHANGED obsVars
    /\ UNCHANGED <<wait, failed, vacant, lingered>>
    /\ UNCHANGED unitVars

\* governor.py:53: write_recovery_conf on its own, before the server is started
AdWriteRecoveryConf(L) ==
    /\ ~is_running(Me)
    /\ recovery_conf_file' = write_recovery_conf_file(Me, L)
    /\ recoveryConf' = [recoveryConf EXCEPT ![Me] = ConfOf(recovery_conf_file')]
    /\ last_call' = Call("write_recovery_conf", L, {}, <<"write">>, "returned")
    /\ UNCHANGED <<dbState, inRecovery, is_promoted, pg_replication_slots, self_members>>
    /\ AdapterFrame

\* postgresql.py:248-263: start() loads the inventory from the server, started
\* now or found running, and fires the callback only when it started it
AdStart ==
    /\ start(Me)
    /\ self_members' = pg_replication_slots
    /\ last_call' =
         Call("start", NoLeader, {},
              IF is_running(Me) THEN <<"load_replication_slots">>
              ELSE <<"pg_ctl start", "load_replication_slots",
                     IF recovery_conf_file.exists THEN "on_change_callback replica"
                     ELSE "on_change_callback master">>,
              IF is_running(Me) THEN "False" ELSE "True")
    /\ UNCHANGED <<recoveryConf, is_promoted, recovery_conf_file, pg_replication_slots>>
    /\ AdapterFrame

\* postgresql.py:265-266
AdStop ==
    /\ is_running(Me)
    /\ stop(Me)
    /\ last_call' = Call("stop", NoLeader, {}, <<"pg_ctl stop">>, "returned")
    /\ UNCHANGED <<inRecovery, recoveryConf, is_promoted>>
    /\ UNCHANGED <<recovery_conf_file, pg_replication_slots, self_members>>
    /\ AdapterFrame

\* postgresql.py:355-360, called in a cycle that found the server healthy:
\* rewrite the file, restart and fire the callback only when the file does not
\* match
AdFollowTheLeader(L) ==
    /\ is_running(Me)
    /\ IF ~check_recovery_conf_file(recovery_conf_file, L)
       THEN /\ recovery_conf_file' = write_recovery_conf_file(Me, L)
            /\ recoveryConf' = [recoveryConf EXCEPT ![Me] = ConfOf(recovery_conf_file')]
            /\ dbState' = [dbState EXCEPT ![Me] = "running"]
            /\ inRecovery' = [inRecovery EXCEPT ![Me] = TRUE]
            /\ last_call' = Call("follow_the_leader", L, {},
                                 <<"write_recovery_conf", "restart",
                                   "on_change_callback replica">>, "returned")
       ELSE /\ UNCHANGED <<recovery_conf_file, recoveryConf, dbState, inRecovery>>
            /\ last_call' = Call("follow_the_leader", L, {}, <<>>, "returned")
    /\ UNCHANGED <<is_promoted, pg_replication_slots, self_members>>
    /\ AdapterFrame

\* postgresql.py:378-382: a promoted server puts recovery.conf aside
AdPromote ==
    /\ promote(Me)
    /\ recovery_conf_file' = IF is_running(Me) /\ inRecovery[Me] THEN NoFile
                             ELSE recovery_conf_file
    /\ last_call' = Call("promote", NoLeader, {},
                         <<"pg_ctl promote", "on_change_callback master">>,
                         IF is_running(Me) /\ inRecovery[Me] THEN "True" ELSE "False")
    /\ UNCHANGED <<dbState, pg_replication_slots, self_members>>
    /\ AdapterFrame

\* postgresql.py:411-424: the slots to drop and to create are worked out from
\* the inventory in memory; a query may raise (postgresql.py:95-113), which
\* ends the call with the slots in `dropped` dropped, those in `created`
\* created and the inventory as it was
create_replication_slots(M, dropped, created) ==
    LET ms == M \ {Me}
        raised == dropped # self_members \ ms \/ created # ms \ self_members
    IN  /\ dropped \subseteq self_members \ ms
        /\ created \subseteq ms \ self_members
        /\ created # {} => dropped = self_members \ ms
        /\ pg_replication_slots' = (pg_replication_slots \ dropped) \cup created
        /\ self_members' = IF raised THEN self_members ELSE ms
        /\ last_call' = Call("create_replication_slots", NoLeader, M, <<>>,
                             IF raised THEN "raised" ELSE "returned")

\* the slot reconciliation of a cycle on the leader, with the members of the
\* cluster view of that cycle
AdCreateReplicationSlots(M) ==
    /\ Writable(Me)
    /\ \E dropped \in SUBSET Nodes, created \in SUBSET Nodes :
        create_replication_slots(M, dropped, created)
    /\ UNCHANGED <<dbState, inRecovery, recoveryConf, is_promoted, recovery_conf_file>>
    /\ AdapterFrame

\* governor.py:91, 42, 57-58: the supervisor process is started again; the new
\* adapter's inventory is empty (postgresql.py:65) and initialize() loads it
\* if the server is running
AdConstruct ==
    /\ self_members' = IF is_running(Me) THEN pg_replication_slots ELSE {}
    /\ is_promoted' = [is_promoted EXCEPT ![Me] = FALSE]
    /\ last_call' = Call("__init__", NoLeader, {},
                         IF is_running(Me) THEN <<"load_replication_slots">> ELSE <<>>,
                         "returned")
    /\ UNCHANGED <<dbState, inRecovery, recoveryConf, recovery_conf_file,
                   pg_replication_slots>>
    /\ AdapterFrame

AdapterNext ==
    \/ \E L \in Leaders :
        \/ AdWriteRecoveryConf(L)
        \/ AdFollowTheLeader(L)
    \/ AdStart
    \/ AdStop
    \/ AdPromote
    \/ \E M \in SUBSET Nodes : AdCreateReplicationSlots(M)
    \/ AdConstruct

AdapterSpec == AdapterInit /\ [][AdapterNext]_vars

\* ------------------------------------------------------------------------
\* Replica provisioning on its own: create_replica called once in each
\* situation of ReplicaCases, the archive restore and the base copy
\* succeeding or not.
ArchiveInit ==
    /\ Detached
    /\ AdapterNew
    /\ replica \in {NoReplica(c) : c \in ReplicaCases}
    /\ QueryIdle
    /\ ClockIdle
    /\ ClientIdle

\* what no single operation touches
UnitFrame ==
    /\ UNCHANGED cfgVars
    /\ UNCHANGED storeVars
    /\ UNCHANGED dbVars
    /\ UNCHANGED supVars
    /\ UNCHANGED obsVars
    /\ UNCHANGED <<wait, failed, vacant, lingered>>
    /\ UNCHANGED adapterVars

\* postgresql.py:146-153
CreateReplica ==
    /\ replica.by = "none"
    /\ \E s3_ok \in BOOLEAN, basebackup_ok \in BOOLEAN :
        replica' = create_replica(replica.case, s3_ok, basebackup_ok)
    /\ UNCHANGED <<query_run, clock, client>>
    /\ UnitFrame

ArchiveNext == CreateReplica

ArchiveSpec == ArchiveInit /\ [][ArchiveNext]_vars

\* ------------------------------------------------------------------------
\* The run loop's clock on its own: cycles that take any time up to MaxStall,
\* each followed by schedule_next_run.
ClockInit ==
    /\ Detached
    /\ AdapterNew
    /\ ReplicaIdle
    /\ QueryIdle
    /\ clock \in {ClockAt(0, nap) : nap \in 1..MaxLoopWait}
    /\ ClientIdle

\* governor.py:74-75: touch_member and run_cycle take time
ClockStall ==
    /\ \E d \in 1..MaxStall :
        /\ clock.now + d <= MaxClock
        /\ clock' = [clock EXCEPT !.now = clock.now + d]
    /\ UNCHANGED <<replica, query_run, client>>
    /\ UnitFrame

\* governor.py:77
ScheduleNextRun ==
    /\ clock.now <= MaxClock
    /\ clock' = schedule_next_run(clock)
    /\ UNCHANGED <<replica, query_run, client>>
    /\ UnitFrame

ClockNext == ClockStall \/ ScheduleNextRun

ClockSpec == ClockInit /\ [][ClockNext]_vars

\* ------------------------------------------------------------------------
\* One call of Postgresql.query, entered with the connection in any state,
\* each attempt meeting any outcome.
QueryInit ==
    /\ Detached
    /\ AdapterNew
    /\ ReplicaIdle
    /\ query_run \in {QueryCallNo(1, "running", c) : c \in Connections}
    /\ ClockIdle
    /\ ClientIdle

\* postgresql.py:97-113
QueryAttempt ==
    /\ query_run.state = "running"
    /\ \E connect_ok \in BOOLEAN, outcome \in QueryOutcomes, still_open \in BOOLEAN :
        query_run' = query_attempt(query_run, connect_ok, outcome, still_open)
    /\ UNCHANGED <<replica, clock, client>>
    /\ UnitFrame

\* postgresql.py:95-96: query is called again, with the connection as the
\* call before left it
QueryAgain ==
    /\ query_run.state \in {"returned", "raised"}
    /\ query_run.calls < MaxQueryCalls
    /\ query_run' = QueryCallNo(query_run.calls + 1, "running", query_run.connection)
    /\ UNCHANGED <<replica, clock, client>>
    /\ UnitFrame

QueryNext == QueryAttempt \/ QueryAgain

\* the loop goes on while the call has not returned or raised
QuerySpec == QueryInit /\ [][QueryNext]_vars /\ WF_vars(QueryAttempt)

\* ------------------------------------------------------------------------
\* The coordination client on its own: its operations called one at a time by
\* either supervisor, against a store holding any keys, within reach or not.
ClientInit ==
    /\ loop_wait = LoopWait0
    /\ ttl = Ttl0
    /\ ConfigOk(loop_wait, ttl)
    /\ dbState = [n \in Nodes |-> IF n = Me THEN "stopped" ELSE "empty"]
    /\ inRecovery = [n \in Nodes |-> FALSE]
    /\ recoveryConf = [n \in Nodes |-> "nofile"]
    /\ xlog = [n \in Nodes |-> 0]
    /\ is_promoted = [n \in Nodes |-> FALSE]
    /\ pc = [n \in Nodes |-> "off"]
    /\ view = [n \in Nodes |-> NoView]
    /\ healthy = [n \in Nodes |-> FALSE]
    /\ local_is_leader = [n \in Nodes |-> FALSE]
    /\ healthiest = [n \in Nodes |-> FALSE]
    /\ probed = [n \in Nodes |-> {}]
    /\ restarts = 0
    /\ crashes = 0
    /\ wait = [n \in Nodes |-> 0]
    /\ failed = [n \in Nodes |-> 0]
    /\ vacant = 0
    /\ lingered = 0
    /\ acquired = 0
    /\ raceWins = {Me}
    /\ initdbBy = {Me}
    /\ leader \in ColdNodes \cup {None}
    /\ leaderTtl = IF leader = None THEN 0 ELSE ttl
    /\ members \in [Nodes -> {0, ttl}]
    /\ initialize \in {None, Me}
    /\ optime \in 0..MaxXlog
    /\ AdapterNew
    /\ ReplicaIdle
    /\ QueryIdle
    /\ ClockIdle
    /\ client \in {ClientCall(up, "none", "none", "none", 0, FALSE, FALSE) : up \in BOOLEAN}

\* what no call of the client touches
ClientFrame ==
    /\ UNCHANGED cfgVars
    /\ UNCHANGED dbVars
    /\ UNCHANGED supVars
    /\ UNCHANGED obsVars
    /\ UNCHANGED <<wait, failed, vacant, lingered>>
    /\ UNCHANGED adapterVars
    /\ UNCHANGED <<replica, query_run, clock>>

\* the network between the supervisor and the store comes and goes
Reach ==
    /\ client' = [client EXCEPT !.up = ~client.up]
    /\ UNCHANGED storeVars
    /\ ClientFrame

\* idempotent upsert of the member key with a TTL
ClTouchMember(n) ==
    /\ \E ok \in BOOLEAN :
        LET done == answered(client.up, ok) IN
        /\ members' = IF done THEN [members EXCEPT ![n] = ttl] ELSE members
        /\ client' = ClientCall(client.up, "touch_member", n, Bool(done), 1, FALSE, done)
    /\ UNCHANGED <<leader, leaderTtl, initialize, optime>>
    /\ ClientFrame

\* unconditional set of the leader key with a TTL
ClTakeLeader(n) ==
    /\ \E ok \in BOOLEAN :
        LET done == answered(client.up, ok) IN
        /\ leader' = IF done THEN n ELSE leader
        /\ leaderTtl' = IF done THEN ttl ELSE leaderTtl
        /\ client' = ClientCall(client.up, "take_leader", n, Bool(done), 1, FALSE, done)
    /\ UNCHANGED <<members, initialize, optime>>
    /\ ClientFrame

\* compare-and-set on absence of the leader key
ClAttemptToAcquireLeader(n) ==
    /\ \E ok \in BOOLEAN :
        LET done == attempt_to_acquire_leader(answered(client.up, ok)) IN
        /\ leader' = IF done THEN n ELSE leader
        /\ leaderTtl' = IF done THEN ttl ELSE leaderTtl
        /\ client' = ClientCall(client.up, "attempt_to_acquire_leader", n, Bool(done),
                                1, FALSE, done)
    /\ UNCHANGED <<members, initialize, optime>>
    /\ ClientFrame

\* compare-and-set of the leader key guarded on the caller's name, and the
\* write of last_operation under the optime key
ClUpdateLeader(n) ==
    /\ \E ok \in BOOLEAN, ok2 \in BOOLEAN, last \in 0..MaxXlog :
        LET cas == update_leader(n, answered(client.up, ok))
            written == cas /\ answered(client.up, ok2)
        IN  /\ leaderTtl' = IF cas THEN ttl ELSE leaderTtl
            /\ optime' = IF written THEN last ELSE optime
            /\ client' = ClientCall(client.up, "update_leader", n,
                                    Bool(renewed(cas, written)), 1, written, cas)
    /\ UNCHANGED <<leader, members, initialize>>
    /\ ClientFrame

\* compare-and-set on absence of /initialize
ClRace(n) ==
    /\ \E ok \in BOOLEAN :
        LET done == race(answered(client.up, ok)) IN
        /\ initialize' = IF done THEN n ELSE initialize
        /\ client' = ClientCall(client.up, "race", n, Bool(done), 1, FALSE, done)
    /\ UNCHANGED <<leader, leaderTtl, members, optime>>
    /\ ClientFrame

\* conditional delete guarded on the caller's name
ClDeleteLeader(n) ==
    /\ \E ok \in BOOLEAN :
        LET done == delete_leader(n, answered(client.up, ok)) IN
        /\ leader' = IF done THEN None ELSE leader
        /\ leaderTtl' = IF done THEN 0 ELSE leaderTtl
        /\ client' = ClientCall(client.up, "delete_leader", n, Bool(done), 1, FALSE, done)
    /\ UNCHANGED <<members, initialize, optime>>
    /\ ClientFrame

\* unconditional delete of the caller's member key
ClDeleteMember(n) ==
    /\ \E ok \in BOOLEAN :
        LET done == answered(client.up, ok) IN
        /\ members' = IF done THEN [members EXCEPT ![n] = 0] ELSE members
        /\ client' = ClientCall(client.up, "delete_member", n, Bool(done), 1, FALSE, done)
    /\ UNCHANGED <<leader, leaderTtl, initialize, optime>>
    /\ ClientFrame

\* one recursive read; out of reach it fails with the store's error
ClGetCluster(n) ==
    /\ \E ok \in BOOLEAN :
        client' = ClientCall(client.up, "get_cluster", n,
                             IF answered(client.up, ok) THEN "Cluster" ELSE "EtcdError",
                             1, FALSE, answered(client.up, ok))
    /\ UNCHANGED storeVars
    /\ ClientFrame

ClientNext ==
    \/ Reach
    \/ \E n \in ColdNodes :
        \/ ClTouchMember(n)
        \/ ClTakeLeader(n)
        \/ ClAttemptToAcquireLeader(n)
        \/ ClUpdateLeader(n)
        \/ ClRace(n)
        \/ ClDeleteLeader(n)
        \/ ClDeleteMember(n)
        \/ ClGetCluster(n)

ClientSpec == ClientInit /\ [][ClientNext]_vars

\* ================================================================ claims
\* The supervisor whose step this is: the one whose position changes.
Stepped(n) == pc'[n] # pc[n]
\* A step of the environment (time, clients, the database server).
EnvStep == pc' = pc

\* C2: a database is writable (running, out of recovery) only if its
\* supervisor is the holder named by the unexpired leader key.
C2_WritableOnlyWithLease ==
    \A n \in Nodes : Writable(n) => leader = n

\* C3: once B holds the lease and has promoted, no second database is
\* writable: the former leader A is never writable beside the new leader.
C3_NoTwoWritable ==
    \A a \in Nodes, b \in Nodes :
        (a # b /\ leader = b /\ Writable(b) /\ a \in initdbBy) => ~Writable(a)

\* C4: attempt_to_acquire_leader returns true only when it created the leader
\* key, and at most once between two events that empty the key.
C4_AcquireOnce ==
    [][acquired' > acquired =>
        /\ leader = None
        /\ acquired = 0
        /\ acquired' = 1
        /\ leader' \in Nodes
        /\ Stepped(leader')]_vars

\* C4 witness: after one successful acquisition a supervisor that saw no leader
\* is about to attempt the acquisition while the key is held.
C4_Witness ==
    /\ acquired = 1
    /\ leader # None
    /\ \E n \in Nodes :
        /\ pc[n] = "act"
        /\ leader # n
        /\ Decision(n, healthy[n], local_is_leader[n], view[n], healthiest[n]) = "acquire"

\* C8: a database in recovery leaves recovery (promote) only in a cycle of its
\* own supervisor in which the view named it leader or its own
\* attempt_to_acquire_leader created the leader key.
C8_PromoteOnlyAsLeader ==
    [][\A n \in Nodes :
        (is_running(n) /\ inRecovery[n] /\ ~inRecovery'[n]) =>
            /\ pc[n] = "act"
            /\ Stepped(n)
            /\ \/ view[n].leader = n
               \/ (leader = None /\ leader' = n /\ acquired' = acquired + 1)]_vars

\* C8 witness: a supervisor that did not initialize the cluster holds the lease
\* it acquired and its database has been promoted.
C8_Witness ==
    \E n \in Nodes :
        /\ n \notin initdbBy
        /\ acquired = 1
        /\ leader = n
        /\ Writable(n)
        /\ is_promoted[n]

\* C9: the leader key naming X is emptied only by X's own delete_leader or by
\* TTL expiry, is never replaced by another name, is created only by an
\* acquisition on the empty key or by take_leader of the /initialize winner,
\* and its TTL is refreshed only by X.
C9_LeaderKeyFrame ==
    [][\A X \in Nodes :
        /\ (leader = X /\ leader' # X) =>
              /\ leader' = None
              /\ \/ (EnvStep /\ leaderTtl = 1)
                 \/ (Stepped(X) /\ pc[X] \in {"act", "td_delete"})
        /\ (leader # X /\ leader' = X) =>
              /\ leader = None
              /\ Stepped(X)
              /\ \/ (pc[X] = "act" /\ acquired' = acquired + 1)
                 \/ (pc[X] = "init_take" /\ initialize = X)
        /\ (leader = X /\ leader' = X /\ leaderTtl' > leaderTtl) =>
              (Stepped(X) /\ pc[X] \in {"act", "init_take"})]_vars

\* C9 witness: a supervisor that does not hold the lease has run its teardown
\* to the end and the leader key still names the other supervisor.
C9_Witness ==
    \E n \in Nodes, X \in Nodes :
        /\ n # X
        /\ pc[n] = "exited"
        /\ restarts = 0
        /\ leader = X
        /\ dbState[n] = "stopped"

\* C10: at most one race('/initialize') returns true, the marker is never
\* rewritten, only the winner runs DA.initialize() and take_leader, and a
\* supervisor with an empty data directory that loses goes on to clone.
C10_InitializeOnce ==
    /\ [](/\ Cardinality(raceWins) <= 1
          /\ initdbBy \subseteq raceWins
          /\ (initialize # None => raceWins = {initialize})
          /\ \A n \in Nodes : pc[n] \in {"init_initdb", "init_take"} => initialize = n)
    /\ [][/\ (initialize # None => initialize' = initialize)
          /\ \A n \in Nodes :
                (pc[n] = "init_datadir" /\ Stepped(n) /\ data_directory_empty(n)) =>
                    IF initialize = None /\ initialize' = n
                    THEN pc'[n] = "init_initdb"
                    ELSE pc'[n] = "init_clone" /\ initialize' = initialize]_vars

\* C10 witness: one supervisor has won the race and initialized, the other has
\* lost it with an empty data directory and waits to clone.
C10_Witness ==
    \E w \in Nodes, n \in Nodes :
        /\ w # n
        /\ raceWins = {w}
        /\ w \in initdbBy
        /\ pc[n] = "init_clone"
        /\ data_directory_empty(n)

LeaderLost ==
    /\ pc["A"] = "off" /\ pc["C"] = "off"
    /\ leader = None
    /\ is_running("B") /\ inRecovery["B"]

\* C6 as stated: A frozen, members = {A, B}: once the lease has run out B
\* acquires it and promotes, so that eventually leader = B and B is writable.
C6_LeaderLossAsStated == LeaderLost ~> (leader = "B" /\ Writable("B"))

\* C6 with the condition it needs: the same, for a B whose replay position is
\* within maximum_lag_on_failover of the last leader operation in the store.
C6_LeaderLoss ==
    (LeaderLost /\ optime - xlog["B"] <= MaximumLagOnFailover)
        ~> (leader = "B" /\ Writable("B"))

\* C6 witness: with A's host down, B has acquired the lease and promoted.
C6_Witness ==
    /\ pc["A"] = "off" /\ pc["C"] = "off"
    /\ ~is_running("A")
    /\ leader = "B" /\ Writable("B")
    /\ acquired = 1 /\ is_promoted["B"]

\* C7: is_healthiest_node is true exactly when the node is leader, or it is
\* within maximum_lag_on_failover of the last leader operation and no other
\* member that answers is out of recovery or strictly ahead; members that do
\* not answer and the node's own entry do not count.
C7_HealthiestExactly ==
    \A n \in Nodes :
        pc[n] = "checked" =>
            (healthiest[n] <=>
                \/ ~inRecovery[n]
                \/ /\ view[n].last_leader_operation - xlog[n] <= MaximumLagOnFailover
                   /\ \A m \in (view[n].members \cap probed[n]) \ {n} :
                        inRecovery[m] /\ xlog[m] <= xlog[n])

\* C7 witness: B is within the lag bound and nobody who answers is ahead, so it
\* is a candidate although C, behind it, is a member and answers, and the
\* former leader A, a member out of recovery, does not answer.
C7_Witness ==
    /\ pc["B"] = "checked"
    /\ healthiest["B"]
    /\ inRecovery["B"]
    /\ view["B"].members = Nodes
    /\ probed["B"] = {"B", "C"}
    /\ inRecovery["C"]
    /\ xlog["C"] < xlog["B"]
    /\ ~inRecovery["A"]
    /\ view["B"].last_leader_operation = xlog["B"]

\* C11: every cluster view has its leader among its members; a leader key that
\* names a supervisor without a member entry gives a view with no leader.
C11_LeaderIsMember ==
    /\ get_cluster.leader # None => get_cluster.leader \in get_cluster.members
    /\ (leader # None /\ leader \notin MemberSet) => get_cluster.leader = None
    /\ \A n \in Nodes : view[n].leader # None => view[n].leader \in view[n].members

\* C11 witness: a supervisor has read its view while the leader key named
\* another supervisor whose member entry was gone, and the view has no leader.
C11_Witness ==
    \E n \in Nodes :
        /\ pc[n] = "act"
        /\ leader \in Nodes \ {n}
        /\ leader \notin MemberSet
        /\ n \in view[n].members
        /\ view[n].leader = None

\* C12: a cycle that starts with the database not running reads it as not
\* healthy; the dispatch of such a cycle leaves the database alone, does not
\* renew or acquire, and touches the leader key only to delete the node's own
\* lease when the node was leader.
C12_UnhealthyCycle ==
    [][\A n \in Nodes :
        /\ (Stepped(n) /\ pc[n] = "cycle" /\ ~is_running(n)) => ~healthy'[n]
        /\ (Stepped(n) /\ pc[n] = "act" /\ ~healthy[n]) =>
              /\ dbVars' = dbVars
              /\ <<members, initialize, optime>>' = <<members, initialize, optime>>
              /\ \/ leader' = leader /\ leaderTtl' = leaderTtl
                 \/ local_is_leader[n] /\ leader = n /\ leader' = None]_vars

\* C12 witness: the leader's server has died and its supervisor has released
\* the lease, before the standby has taken any step about it.
C12_Witness ==
    /\ ~is_running("A") /\ local_is_leader["A"]
    /\ pc["A"] = "run_touch" /\ wait["A"] = loop_wait
    /\ leader = None /\ leaderTtl = 0
    /\ inRecovery["B"] /\ is_running("B")

Range(q) == {q[i] : i \in DOMAIN q}

\* C14: follow_the_leader(L) on a file that already points at L (the file is
\* what write_recovery_conf(L) writes, or check_recovery_conf(L) is true)
\* writes nothing, restarts nothing and fires no callback; a call that
\* restarts is one that found the file not matching and rewrote it.
C14_FollowIdempotent ==
    [][\A L \in Leaders :
        (last_call'.op = "follow_the_leader" /\ last_call'.leader = L /\ is_running(Me)) =>
            /\ (\/ check_recovery_conf_file(recovery_conf_file, L)
                \/ recovery_conf_file = write_recovery_conf_file(Me, L)) =>
                    /\ last_call'.did = <<>>
                    /\ recovery_conf_file' = recovery_conf_file
                    /\ <<dbState, inRecovery>>' = <<dbState, inRecovery>>
            /\ "restart" \in Range(last_call'.did) =>
                    /\ ~check_recovery_conf_file(recovery_conf_file, L)
                    /\ "write_recovery_conf" \in Range(last_call'.did)
                    /\ recovery_conf_file' = write_recovery_conf_file(Me, L)
                    /\ recovery_conf_file' # recovery_conf_file]_vars

\* C14 witness: a standby whose file names a leader with a connection URL has
\* been told to follow that leader again and did nothing.
C14_Witness ==
    /\ last_call.op = "follow_the_leader"
    /\ HasUrl(last_call.leader)
    /\ last_call.did = <<>>
    /\ recovery_conf_file = write_recovery_conf_file(Me, last_call.leader)
    /\ is_running(Me) /\ inRecovery[Me]

\* L1 and L2 lead to the same standby configuration: neither has a
\* connection URL, or both have one with the same user, password, host and
\* port (the default port when the URL names none)
SamePrimary(L1, L2) ==
    /\ HasUrl(L1) = HasUrl(L2)
    /\ HasUrl(L1) => parseurl(L1.conn_url) = parseurl(L2.conn_url)

\* C15 as stated: after write_recovery_conf(L), check_recovery_conf is true of
\* L and false of every other leader, the absent leader and the leaders with
\* no connection URL included.
C15_RoundTripAsStated ==
    last_call.op = "write_recovery_conf" =>
        \A L \in Leaders :
            check_recovery_conf_file(recovery_conf_file, L) <=> L = last_call.leader

\* C15: after write_recovery_conf(L), check_recovery_conf(L) is true, and
\* check_recovery_conf(L') is true exactly of the leaders L' that lead to the
\* same standby configuration as L.
C15_RoundTrip ==
    last_call.op = "write_recovery_conf" =>
        /\ check_recovery_conf_file(recovery_conf_file, last_call.leader)
        /\ \A L \in Leaders :
            check_recovery_conf_file(recovery_conf_file, L) <=> SamePrimary(L, last_call.leader)

\* C15 witness: the file was written for a leader with a connection URL; it
\* does not match the other node, the absent leader or a leader with no URL.
C15_Witness ==
    /\ last_call.op = "write_recovery_conf"
    /\ HasUrl(last_call.leader)
    /\ check_recovery_conf_file(recovery_conf_file, last_call.leader)
    /\ ~check_recovery_conf_file(recovery_conf_file, NoLeader)
    /\ \E L \in Leaders :
        /\ HasUrl(L) /\ L.hostname # last_call.leader.hostname
        /\ ~check_recovery_conf_file(recovery_conf_file, L)

\* C16: on the leader, after create_replication_slots(cluster) has returned,
\* the slots of the server and the inventory in memory are both the names of
\* the cluster's members other than this node; and a second call with the
\* same cluster changes neither.
C16_SlotsMatchMembers ==
    (last_call.op = "create_replication_slots" /\ last_call.ret = "returned") =>
        /\ pg_replication_slots = last_call.cluster \ {Me}
        /\ self_members = last_call.cluster \ {Me}

\* the supervisor of A has gone through its teardown
TornDown == pc["A"] = "exited"

C18_GoneWithinATick == lingered <= 1

\* C19: with leader_ttl > 2 * loop_wait, every cycle on time and no two
\* failed cycles in a row, a lease holder whose server is running keeps the
\* lease through every step, the passing of time included: the lease never
\* runs out before the holder renews it, and no supervisor acquires the lease
\* while there is such a holder.
C19_RenewsBeforeExpiry ==
    [][/\ \A h \in Nodes : (leader = h /\ is_running(h)) => (leader' = h /\ leaderTtl' >= 1)
       /\ acquired' > acquired => leader = None]_vars

\* C19 witness: the holder's cycle before this one failed, the lease is down
\* to its last unit, and the holder has read itself as leader in the cycle
\* that renews it.
C19_Witness ==
    /\ leader = "A" /\ is_running("A")
    /\ leaderTtl = 1
    /\ failed["A"] = 2
    /\ pc["A"] = "act" /\ view["A"].leader = "A" /\ healthy["A"] /\ local_is_leader["A"]

\* C20: a supervisor constructed with etcd.ttl <= 2 * loop_wait aborts in its
\* constructor: it is never past construction, and it has touched no member
\* key, raced for no initialization, taken no lease and made no data
\* directory.  Every supervisor past construction has ttl > 2 * loop_wait.
C20_ConfigEnforced ==
    /\ \A n \in Nodes : pc[n] \notin {"new", "aborted", "off"} => ttl > 2 * loop_wait
    /\ ttl <= 2 * loop_wait =>
        /\ members = [n \in Nodes |-> 0]
        /\ initialize = None /\ leader = None
        /\ dbState = [n \in Nodes |-> "empty"]

\* C20 witness: with ttl = 2 * loop_wait both supervisors have aborted and the
\* store is empty.
C20_Witness ==
    /\ loop_wait > 0 /\ ttl = 2 * loop_wait
    /\ \A n \in ColdNodes : pc[n] = "aborted"
    /\ members = [n \in Nodes |-> 0]


\* the listing create_replica was given has two lines and seven columns with
\* seven values, the columns the decision reads among them
WellFormedListing(c) ==
    /\ c.lines = 2
    /\ Len(c.names) = 7
    /\ c.nvals = 7
    /\ ReadColumns \subseteq Range(c.names)

\* nothing failed on the way to the decision
DecisionPathClean(c) == c.cmd_ok /\ c.query_ok /\ c.bad = "none"

\* C21: when nothing fails on the way, the decision prefers the archive
\* exactly when an archive is configured, the latest-backup listing is well
\* formed, diff_bytes < threshold_megabytes x 1,048,576 and
\* diff_bytes x 100 < backup_size x threshold_backup_size_percentage.
C21_ArchiveDecision ==
    (replica.by # "none" /\ DecisionPathClean(replica.case)) =>
        (replica.use = "True" <=>
            /\ replica.case.wal_e
            /\ WellFormedListing(replica.case)
            /\ replica.case.diff_in_bytes
                 < replica.case.threshold_megabytes * BytesPerMegabyte
            /\ replica.case.diff_in_bytes * 100
                 < replica.case.backup_size
                     * replica.case.threshold_backup_size_percentage)

\* the archive preferred at a distance that is under 30 % of the backup only
\* by a fraction of a byte
C21_Witness ==
    /\ replica.use = "True"
    /\ replica.case.backup_size = 1049
    /\ replica.case.threshold_backup_size_percentage = 30
    /\ replica.case.diff_in_bytes = 314


\* something failed on the way to the decision
DecisionPathError(c) ==
    \/ ~c.cmd_ok
    \/ ~WellFormedListing(c)
    \/ c.bad # "none"
    \/ ~c.query_ok

\* C22: with an archive configured, whenever the backup-list command fails,
\* the listing is malformed, a field of the listing does not parse or the
\* query against the leader fails, the decision returns false without raising
\* and create_replica goes on with the base copy.
C22_ErrorsFallBack ==
    (replica.by # "none" /\ replica.case.wal_e /\ DecisionPathError(replica.case)) =>
        (replica.use = "False" /\ replica.by = "pg_basebackup")


\* a supervisor that found its data directory empty and lost the race
RaceLoser(n) == n \notin raceWins

\* where a race loser stands between the race and the start of its server
LoserStages ==
    \A n \in Nodes : RaceLoser(n) =>
        \* still reading the leader and copying: nothing to start
        /\ pc[n] = "init_clone" => data_directory_empty(n)
        \* the copy is made from a leader that was read, the server is down
        /\ pc[n] = "init_writeconf" =>
               view[n].leader # None /\ dbState[n] = "stopped"
        \* the file names that leader, the server is still down
        /\ pc[n] = "init_start" =>
               recoveryConf[n] \in Nodes /\ dbState[n] = "stopped"
        \* once up, it is a standby
        /\ is_running(n) => inRecovery[n]

\* the order of a race loser's steps
LoserOrder ==
    \A n \in Nodes : (RaceLoser(n) /\ Stepped(n)) =>
        /\ pc'[n] = "init_writeconf" => pc[n] = "init_clone"
        /\ pc'[n] = "init_start" => pc[n] = "init_writeconf"
        /\ (~is_running(n) /\ dbState'[n] = "running") =>
               /\ pc[n] = "init_start"
               /\ inRecovery'[n]
        /\ pc[n] = "init_clone" => dbState'[n] # "running"

WinnerOrder ==
    \A n \in Nodes : Stepped(n) =>
        \* the race comes after a touch_member that succeeded
        /\ pc'[n] = "init_datadir" => (pc[n] = "init_touch" /\ members'[n] = ttl)
        /\ initialize' # initialize => pc[n] = "init_datadir"
        \* initialize, take_leader, start
        /\ pc'[n] = "init_initdb" => (pc[n] = "init_datadir" /\ initialize' = n)
        /\ pc'[n] = "init_take" => (pc[n] = "init_initdb" /\ dbState'[n] = "stopped")
        /\ (pc'[n] = "init_start" /\ ~RaceLoser(n)) => pc[n] = "init_take"
        /\ (~RaceLoser(n) /\ ~is_running(n) /\ dbState'[n] = "running") =>
               pc[n] = "init_start"

\* the winner goes on to start its server with the leader key set to its name
KeySetBeforeStart ==
    \A n \in Nodes :
        (pc[n] = "init_take" /\ pc'[n] = "init_start") => leader' = n

\* C24: no race is attempted before a touch_member succeeded, the winner
\* calls DA.initialize(), take_leader(self), DA.start() in that order, and so
\* its server is started as a primary only after the leader key has been set
\* to its own name.
C24_WinnerBootstrap == [][WinnerOrder /\ KeySetBeforeStart]_vars


\* a step that is a call of schedule_next_run: it comes back at the time shown
ScheduleStep == clock' # clock /\ clock'.returned = clock'.now

\* C25: schedule_next_run advances next_run by the loop interval; with the
\* time at or past the new next_run it sets next_run to the time and does not
\* sleep, otherwise it sleeps exactly next_run - now.  After the call next_run
\* is not earlier than the time the call read, a call comes back no sooner
\* than one interval after the time the call before it read, and the call
\* after a reset sleeps one interval if the cycle took no time.
C25_ScheduleNextRun ==
    [][ScheduleStep =>
        LET next == clock.next_run + clock.nap_time IN
        /\ clock'.read = clock.now
        /\ IF clock.now >= next
           THEN /\ clock'.next_run = clock.now
                /\ clock'.slept = 0
                /\ clock'.now = clock.now
           ELSE /\ clock'.next_run = next
                /\ clock'.slept = next - clock.now
                /\ clock'.now = next
        /\ clock'.next_run >= clock'.read
        /\ clock'.returned >= clock.read + clock.nap_time
        /\ (clock.reset /\ clock.now = clock.returned) =>
               clock'.slept = clock.nap_time]_vars

\* a cycle stalled for more than two intervals, next_run was set to the time,
\* and the call after it slept one whole interval
C25_Witness ==
    /\ clock.after_reset
    /\ ~clock.reset
    /\ clock.slept = clock.nap_time
    /\ clock.read > 2 * clock.nap_time


\* an attempt ended in an error of the connection: an InterfaceError, or an
\* OperationalError that left the connection not open
ConnectionLevel(a) ==
    \/ a.error = "InterfaceError"
    \/ a.error = "OperationalError" /\ ~a.open

\* at most three attempts, and an error of the connection is surfaced only
\* by the third
QueryBounded ==
    /\ Len(query_run.log) <= 3
    /\ query_run.max_attempts <= 3
    /\ (query_run.state = "raised"
          /\ ConnectionLevel(query_run.log[Len(query_run.log)])) =>
           (Len(query_run.log) = 3 /\ query_run.max_attempts = 3)

\* what one attempt does with the error it met
QueryStep ==
    (query_run.state = "running" /\ query_run' # query_run) =>
        LET a == query_run'.log[Len(query_run'.log)] IN
        /\ Len(query_run'.log) = Len(query_run.log) + 1
        /\ ConnectionLevel(a) =>
              /\ query_run'.connection = "none"
              /\ query_run'.disconnects = query_run.disconnects + 1
              /\ query_run'.max_attempts = query_run.max_attempts + 1
              /\ IF query_run'.max_attempts < 3
                 THEN /\ query_run'.state = "running"
                      /\ query_run'.slept = query_run.slept + QueryBackoff
                 ELSE /\ query_run'.state = "raised"
                      /\ query_run'.error = a.error
                      /\ query_run'.slept = query_run.slept
        /\ (a.error = "OperationalError" /\ a.open) =>
              /\ query_run'.state = "raised"
              /\ query_run'.error = "OperationalError"
              /\ query_run'.connection = "open"
              /\ query_run'.max_attempts = query_run.max_attempts
              /\ query_run'.disconnects = query_run.disconnects
              /\ query_run'.slept = query_run.slept

\* C26: on an error of the connection query drops the connection and tries
\* again after a fixed back-off; it makes at most 3 attempts and then
\* surfaces the error, so it always ends; an OperationalError met with the
\* connection still open is surfaced at once, without another attempt.
C26_QueryRetry ==
    /\ []QueryBounded
    /\ [][QueryStep]_vars
    /\ (query_run.state = "running") ~> (query_run.state \in {"returned", "raised"})

\* three attempts lost to the connection, two back-offs, the error surfaced
C26_Witness ==
    /\ query_run.state = "raised"
    /\ Len(query_run.log) = 3
    /\ query_run.disconnects = 3
    /\ query_run.slept = 2 * QueryBackoff
    /\ ConnectionLevel(query_run.log[3])


\* a step that is a call of the client
ClientStep == client'.up = client.up

\* C27: update_leader returns true exactly when the compare-and-set guarded
\* on the previous value being the caller's name succeeded, and then the
\* lease is renewed for the same holder; a failed compare-and-set returns
\* false and leaves the lease as it was; whether the write of last_operation
\* under the optime key went through changes nothing in what is returned.
C27_UpdateLeader ==
    [][(ClientStep /\ client'.op = "update_leader") =>
        /\ client'.ret = Bool(client'.done)
        /\ client'.done =>
              /\ client.up
              /\ leader = client'.who
              /\ leader' = leader
              /\ leaderTtl' = ttl
        /\ ~client'.done =>
              /\ UNCHANGED storeVars
              /\ ~client'.optime_written
        /\ ~client'.optime_written => optime' = optime]_vars

\* the lease renewed and true returned although the optime write failed
C27_Witness ==
    /\ client.op = "update_leader"
    /\ client.ret = "True"
    /\ client.done
    /\ ~client.optime_written
    /\ leader = client.who
    /\ leaderTtl = ttl

\* the operations of the client that return a boolean
BooleanOps ==
    {"touch_member", "take_leader", "attempt_to_acquire_leader", "race",
     "delete_member", "delete_leader"}

\* C28: with the store out of reach every boolean operation returns false
\* and changes nothing in the store, get_cluster fails with the store's
\* error, and the call is one request, not repeated.
C28_Unreachable ==
    [][(ClientStep /\ ~client.up /\ client'.op # "none") =>
        /\ UNCHANGED storeVars
        /\ ~client'.done
        /\ client'.op \in BooleanOps => client'.ret = "False"
        /\ client'.op = "get_cluster" => client'.ret = "EtcdError"
        /\ client'.requests = 1]_vars

\* the race lost to the network: /initialize was free and stays free
C28_Witness ==
    /\ ~client.up
    /\ client.op = "race"
    /\ client.ret = "False"
    /\ initialize = None

====
